---- MODULE Spec2Model ----
(***************************************************************************)
(* Attention-to-metrics engine of the BERT attention visualisation:        *)
(*   - the known/unknown adjustment done by AttentionHeatmap on render,    *)
(*   - computeComprehension / computeEffortTimeline,                       *)
(*   - the ComprehensionScoreboard row selection.                          *)
(* JavaScript numbers are modelled as exact rationals <<num, den>> with    *)
(* den > 0 in lowest terms; NaN (the result of arithmetic on `undefined`)  *)
(* is the pair <<0, 0>>.  Arrays are functions on 0..len-1, as in the      *)
(* source; reading outside the domain yields `undefined`.                  *)
(***************************************************************************)
EXTENDS Integers, Sequences, FiniteSets, TLC

\* ------------------------------------------------------------------ bounds
\* Largest number of tokens (the matrix is at most MaxN x MaxN).
MaxN == 2
\* Largest total of the (integer) entries of an input matrix.
MaxMass == 2
\* Largest total number of unknown / known / punctuation marks.
MaxMarks == 2
\* Largest total of the entries of a knownness weight vector.
MaxWeight == 2
\* Renders without a known token: largest number of tokens, largest total of
\* the matrix entries, largest number of unknown / punctuation marks.
MaxWords == 3
MaxTotal == 3
MaxFlags == 1
\* Largest size of one render: its number of tokens, plus the total of its
\* matrix entries, plus its number of marks.
MaxSize == 6
\* Largest number of sentences of the text typed into App, and largest number
\* of fetchAttention runs awaiting the backend at once.
MaxSentences == 2
\* Largest number of words passed to rearrangeWordsLeftAttention on its own.
MaxReorder == 3
MaxRuns == 2
MaxFrames == 3
MaxTime == 7
MaxBandWords == 3
MaxLevel == 2

\* ------------------------------------------------------- number arithmetic
NaN == <<0, 0>>
IsNaN(x) == x[2] = 0

Abs(i) == IF i < 0 THEN -i ELSE i

RECURSIVE GCD(_, _)
GCD(a, b) == IF b = 0 THEN a ELSE GCD(b, a % b)

\* The number n/d (d # 0) in lowest terms with a positive denominator.
Rat(n, d) ==
  LET g == GCD(Abs(n), Abs(d))
      s == IF d < 0 THEN -1 ELSE 1
  IN  <<(s * n) \div g, (s * d) \div g>>

Num(i) == <<i, 1>>
Zero == Num(0)
One == Num(1)
Half == Rat(1, 2)

\* JavaScript +, -, *, /: NaN is contagious.  No division of the modelled
\* code has a zero divisor (each is guarded by a > 0 or truthiness test).
RAdd(x, y) ==
  IF IsNaN(x) \/ IsNaN(y) THEN NaN ELSE Rat(x[1] * y[2] + y[1] * x[2], x[2] * y[2])
RSub(x, y) ==
  IF IsNaN(x) \/ IsNaN(y) THEN NaN ELSE Rat(x[1] * y[2] - y[1] * x[2], x[2] * y[2])
RMul(x, y) ==
  IF IsNaN(x) \/ IsNaN(y) THEN NaN ELSE Rat(x[1] * y[1], x[2] * y[2])
RDiv(x, y) ==
  IF IsNaN(x) \/ IsNaN(y) \/ y[1] = 0 THEN NaN ELSE Rat(x[1] * y[2], x[2] * y[1])

\* JavaScript <, >, <=: every comparison with NaN is false.
RLt(x, y) == ~IsNaN(x) /\ ~IsNaN(y) /\ x[1] * y[2] < y[1] * x[2]
RGt(x, y) == RLt(y, x)
RLe(x, y) == ~IsNaN(x) /\ ~IsNaN(y) /\ x[1] * y[2] <= y[1] * x[2]

\* JavaScript truthiness of a number: 0 and NaN are falsy.
Truthy(x) == ~IsNaN(x) /\ x[1] # 0

\* ------------------------------------------------------------------ arrays
\* An array of length len whose element i is f[i].
Len0(a) == Cardinality(DOMAIN a \cap Nat)
\* a[i] of JavaScript: `undefined` (NaN once used in arithmetic) outside.
Get(a, i) == IF i \in DOMAIN a THEN a[i] ELSE NaN
\* a[i] = v of JavaScript: an index outside the array adds the element.
Put(a, i, v) == [j \in DOMAIN a \cup {i} |-> IF j = i THEN v ELSE a[j]]

\* array.reduce((acc, x) => acc + f(x), 0) over a[0..upto-1], left to right.
RECURSIVE ReduceSum(_, _)
ReduceSum(a, upto) ==
  IF upto = 0 THEN Zero ELSE RAdd(ReduceSum(a, upto - 1), a[upto - 1])

\* Math.max(...xs) / Math.min(...xs) for a non-empty set of numbers xs.
MathMax(xs) ==
  IF \E x \in xs : IsNaN(x) THEN NaN
  ELSE CHOOSE m \in xs : \A x \in xs : RLe(x, m)
MathMin(xs) ==
  IF \E x \in xs : IsNaN(x) THEN NaN
  ELSE CHOOSE m \in xs : \A x \in xs : RLe(m, x)

Range(a) == {a[i] : i \in DOMAIN a}

\* ------------------------------------------------------------------ inputs
\* Sequences of length len over Nat whose entries total at most mass.
RECURSIVE Vecs(_, _)
Vecs(len, mass) ==
  IF len = 0 THEN {<<>>}
  ELSE UNION {{Append(v, x) : v \in Vecs(len - 1, mass - x)} : x \in 0..mass}

\* The array (0-based) of the numbers of a sequence of naturals.
ToArray(v) == [i \in 0..(Len(v) - 1) |-> Num(v[i + 1])]

\* The n x n matrices of non-negative integers of total at most MaxMass.
SquareMatrices(n) ==
  {[t \in 0..(n - 1) |-> [s \in 0..(n - 1) |-> Num(v[t * n + s + 1])]] :
     v \in Vecs(n * n, MaxMass)}

\* The n x n matrices of non-negative integers of total at most total.
MatricesOfTotal(n, total) ==
  {[t \in 0..(n - 1) |-> [s \in 0..(n - 1) |-> Num(v[t * n + s + 1])]] :
     v \in Vecs(n * n, total)}

\* Sequences over S of length at most k.
SeqsUpTo(S, k) == UNION {[1..m -> S] : m \in 0..k}

\* Token indices a caller may pass for n tokens: the valid ones, a negative
\* one and one past the end.
IndexInputs(n) == (-1)..n

\* --------------------------------------------- AttentionHeatmap (render)
\* Faulty variant: the unknown token's column is zeroed instead of its row.
DisplayAttentionZeroesColumn(att, unknown) ==
  [i \in DOMAIN att |->
     [s \in DOMAIN att[i] |-> IF s \in unknown THEN Zero ELSE att[i][s]]]

\* attention.map((row, i) => unknownTokenIndices.includes(i) ? row.map(() => 0) : [...row])
DisplayAttention(att, unknown) ==
  [i \in DOMAIN att |->
     IF i \in unknown THEN [s \in DOMAIN att[i] |-> Zero] ELSE att[i]]

\* mat.reduce((sum, row) => sum + row[i], 0) over rows 0..upto-1.
RECURSIVE ColumnReduce(_, _, _)
ColumnReduce(mat, i, upto) ==
  IF upto = 0 THEN Zero
  ELSE RAdd(ColumnReduce(mat, i, upto - 1), Get(mat[upto - 1], i))

\* displayAttention.map(row => row.reduce((a, b) => a + b, 0))
Provided(mat) == [i \in DOMAIN mat |-> ReduceSum(mat[i], Len0(mat[i]))]

\* Faulty variant: the matrix read in the other orientation (row i summed for token i).
ReceivedSumsRows(n, mat) == [i \in 0..(n - 1) |-> ReduceSum(mat[i], Len0(mat[i]))]

\* words.map((_, i) => mat.reduce((sum, row) => sum + row[i], 0))
Received(n, mat) == [i \in 0..(n - 1) |-> ColumnReduce(mat, i, Len0(mat))]

\* values.filter((_, i) => keep(i)), as the set of the kept values.
Kept(values, keep) == {values[i] : i \in DOMAIN values \cap keep}

\* kept.length > 0 ? Math.min(...kept) : 0, and Math.max(...kept) : 1
MinOr0(kept) == IF kept # {} THEN MathMin(kept) ELSE Zero
MaxOr1(kept) == IF kept # {} THEN MathMax(kept) ELSE One

\* (max - min ? (v - min) / (max - min) : 0)
Scale(v, min, max) ==
  IF Truthy(RSub(max, min)) THEN RDiv(RSub(v, min), RSub(max, min)) ELSE Zero

NonPunctuation(n, punct) == (0..(n - 1)) \ punct
NonUnknownNonPunctuation(n, unknown, punct) == ((0..(n - 1)) \ unknown) \ punct

OriginalMinReceived(n, att, punct) ==
  MinOr0(Kept(Received(n, att), NonPunctuation(n, punct)))
OriginalMaxReceived(n, att, punct) ==
  MaxOr1(Kept(Received(n, att), NonPunctuation(n, punct)))

MinProvided(n, prov, unknown, punct) ==
  IF NonUnknownNonPunctuation(n, unknown, punct) # {}
  THEN MathMin({Get(prov, i) : i \in NonUnknownNonPunctuation(n, unknown, punct)})
  ELSE Zero
MaxProvided(n, prov, unknown, punct) ==
  IF NonUnknownNonPunctuation(n, unknown, punct) # {}
  THEN MathMax({Get(prov, i) : i \in NonUnknownNonPunctuation(n, unknown, punct)})
  ELSE One

\* let normProvided = provided.map(...), before the known-token loop.
NormProvidedBase(n, att, unknown, punct) ==
  LET prov == Provided(DisplayAttention(att, unknown))
      min == MinProvided(n, prov, unknown, punct)
      max == MaxProvided(n, prov, unknown, punct)
  IN  [i \in DOMAIN prov |->
         IF i \in unknown \/ i \in punct THEN Zero ELSE Scale(prov[i], min, max)]

\* let normReceived = received.map(...), before the known-token loop.
NormReceivedBase(n, att, unknown, punct) ==
  LET recv == Received(n, DisplayAttention(att, unknown))
      min == OriginalMinReceived(n, att, punct)
      max == OriginalMaxReceived(n, att, punct)
  IN  [i \in DOMAIN recv |->
         IF i \in punct THEN Zero ELSE Scale(recv[i], min, max)]

\* Faulty variant: normReceived is pinned only inside the provider-boost branch.
KnownStepPinsInsideIf(att, st, iKnown) ==
  LET prevNormReceived == Get(st[1], iKnown)
      totalAttentionToKnown == ColumnReduce(att, iKnown, Len0(att))
      delta == RSub(One, prevNormReceived)
  IN  IF RGt(totalAttentionToKnown, Zero) /\ RGt(delta, Zero)
      THEN <<Put(st[1], iKnown, One),
             [j \in DOMAIN st[2] |->
                IF j # iKnown /\ RGt(Get(att[j], iKnown), Zero)
                THEN RAdd(st[2][j],
                          RMul(RDiv(Get(att[j], iKnown), totalAttentionToKnown), delta))
                ELSE st[2][j]]>>
      ELSE st

\* Faulty variant: delta computed with the operands swapped, so it is never positive.
KnownStepDeltaSwapped(att, st, iKnown) ==
  LET prevNormReceived == Get(st[1], iKnown)
      totalAttentionToKnown == ColumnReduce(att, iKnown, Len0(att))
      delta == RSub(prevNormReceived, One)
  IN  <<Put(st[1], iKnown, One),
        IF RGt(totalAttentionToKnown, Zero) /\ RGt(delta, Zero)
        THEN [j \in DOMAIN st[2] |->
                IF j # iKnown /\ RGt(Get(att[j], iKnown), Zero)
                THEN RAdd(st[2][j],
                          RMul(RDiv(Get(att[j], iKnown), totalAttentionToKnown), delta))
                ELSE st[2][j]]
        ELSE st[2]>>

\* Faulty variant: the previous score is read from normProvidedCopy, which
\* accumulates the boosts of the known tokens processed before.
KnownStepReadsProvidedCopy(att, st, iKnown) ==
  LET prevNormReceived == Get(st[2], iKnown)
      totalAttentionToKnown == ColumnReduce(att, iKnown, Len0(att))
      delta == RSub(One, prevNormReceived)
  IN  <<Put(st[1], iKnown, One),
        IF RGt(totalAttentionToKnown, Zero) /\ RGt(delta, Zero)
        THEN [j \in DOMAIN st[2] |->
                IF j # iKnown /\ RGt(Get(att[j], iKnown), Zero)
                THEN RAdd(st[2][j],
                          RMul(RDiv(Get(att[j], iKnown), totalAttentionToKnown), delta))
                ELSE st[2][j]]
        ELSE st[2]>>

\* Faulty variant: the known token itself is boosted as one of its providers.
KnownStepBoostsSelf(att, st, iKnown) ==
  LET prevNormReceived == Get(st[1], iKnown)
      totalAttentionToKnown == ColumnReduce(att, iKnown, Len0(att))
      delta == RSub(One, prevNormReceived)
  IN  <<Put(st[1], iKnown, One),
        IF RGt(totalAttentionToKnown, Zero) /\ RGt(delta, Zero)
        THEN [j \in DOMAIN st[2] |->
                IF RGt(Get(att[j], iKnown), Zero)
                THEN RAdd(st[2][j],
                          RMul(RDiv(Get(att[j], iKnown), totalAttentionToKnown), delta))
                ELSE st[2][j]]
        ELSE st[2]>>

\* One iteration of knownTokenIndices.forEach(iKnown => ...): st is the pair
\* <<normReceivedCopy, normProvidedCopy>>.  The provider shares are read from
\* the `attention` prop, the matrix before the unknown rows are zeroed.
KnownStep(att, st, iKnown) ==
  LET prevNormReceived == Get(st[1], iKnown)
      totalAttentionToKnown == ColumnReduce(att, iKnown, Len0(att))
      delta == RSub(One, prevNormReceived)
  IN  <<Put(st[1], iKnown, One),
        IF RGt(totalAttentionToKnown, Zero) /\ RGt(delta, Zero)
        THEN [j \in DOMAIN st[2] |->
                IF j # iKnown /\ RGt(Get(att[j], iKnown), Zero)
                THEN RAdd(st[2][j],
                          RMul(RDiv(Get(att[j], iKnown), totalAttentionToKnown), delta))
                ELSE st[2][j]]
        ELSE st[2]>>

\* The share of the boost for iKnown that the known-token loop adds to
\* normProvidedCopy[j]: row[iKnown] / totalAttentionToKnown for a provider j
\* the loop boosts, 0 for a token it does not boost.
ProviderShare(att, st, iKnown, j) ==
  LET prevNormReceived == Get(st[1], iKnown)
      totalAttentionToKnown == ColumnReduce(att, iKnown, Len0(att))
      delta == RSub(One, prevNormReceived)
  IN  IF /\ RGt(totalAttentionToKnown, Zero) /\ RGt(delta, Zero)
         /\ j # iKnown /\ RGt(Get(att[j], iKnown), Zero)
      THEN RDiv(Get(att[j], iKnown), totalAttentionToKnown)
      ELSE Zero

\* The forEach over the first upto entries of knownTokenIndices.
RECURSIVE KnownLoop(_, _, _, _)
KnownLoop(att, st, known, upto) ==
  IF upto = 0 THEN st
  ELSE KnownStep(att, KnownLoop(att, st, known, upto - 1), known[upto])

\* normReceived and normProvided as left by the render:
\* if (knownTokenIndices && knownTokenIndices.length > 0) { ... }
Adjusted(n, att, unknown, known, punct) ==
  LET base == <<NormReceivedBase(n, att, unknown, punct),
                NormProvidedBase(n, att, unknown, punct)>>
  IN  IF Len(known) > 0 THEN KnownLoop(att, base, known, Len(known)) ELSE base

\* --------------------------------------- AttentionHeatmap (combined score)
\* Faulty variant: every token is scored on what it receives alone.
RawSumsReceivedOnly(n, recv, prov, unknown) ==
  [i \in 0..(n - 1) |-> Get(recv, i)]

\* rawSums: unknownTokenIndices.includes(index) ? totalReceived[index]
\*                                              : totalReceived[index] + totalProvided[index]
RawSums(n, recv, prov, unknown) ==
  [i \in 0..(n - 1) |->
     IF i \in unknown THEN Get(recv, i) ELSE RAdd(Get(recv, i), Get(prov, i))]

\* Faulty variant: punctuation is left out of the range but scaled like the rest.
NormalizeSumsScalesExcluded(sums, punct) ==
  LET kept == Kept(sums, (DOMAIN sums) \ punct)
      min == MinOr0(kept)
      max == MaxOr1(kept)
  IN  [i \in DOMAIN sums |-> Scale(sums[i], min, max)]

\* sums.map((sum, i) => punctuationIndices.includes(i) ? 0
\*                        : (max - min ? (sum - min) / (max - min) : 0)),
\* min and max taken over the non-punctuation sums (0 and 1 when there is none).
NormalizeSums(sums, punct) ==
  LET kept == Kept(sums, (DOMAIN sums) \ punct)
      min == MinOr0(kept)
      max == MaxOr1(kept)
  IN  [i \in DOMAIN sums |-> IF i \in punct THEN Zero ELSE Scale(sums[i], min, max)]

\* Faulty variant: the value is stretched to the range but not shifted by min.
DenormForgetsMin(v, min, max) == RMul(v, RSub(max, min))

\* normalized * (max - min) + min: a normalised value converted back to its scale.
Denorm(v, min, max) == RAdd(RMul(v, RSub(max, min)), min)

\* updatedRawSums, from the row totals prov of displayAttention and from
\* normReceived and normProvided as the known-token loop left them (st is the
\* pair <<normReceived, normProvided>>).
UpdatedRawSums(n, att, prov, st, unknown, punct) ==
  LET oMin == OriginalMinReceived(n, att, punct)
      oMax == OriginalMaxReceived(n, att, punct)
      pMin == MinProvided(n, prov, unknown, punct)
      pMax == MaxProvided(n, prov, unknown, punct)
  IN  [i \in 0..(n - 1) |->
         IF i \in unknown THEN Denorm(Get(st[1], i), oMin, oMax)
         ELSE RAdd(Denorm(Get(st[1], i), oMin, oMax),
                   Denorm(Get(st[2], i), pMin, pMax))]

\* normalizedSums as left by the render: the first pass over rawSums (from the
\* totals recv and prov of displayAttention), replaced by the pass over
\* updatedRawSums (from st, the pair <<normReceived, normProvided>> after the
\* known-token loop) when there is a known token.
NormalizedSums(n, att, recv, prov, st, unknown, known, punct) ==
  IF Len(known) > 0
  THEN NormalizeSums(UpdatedRawSums(n, att, prov, st, unknown, punct), punct)
  ELSE NormalizeSums(RawSums(n, recv, prov, unknown), punct)

\* ------------------------------------------------- computeComprehension
\* The optional `knownness` argument: absent, or an array of weights.
NoKnownness == [given |-> FALSE, value |-> <<>>]
GivenKnownness(w) == [given |-> TRUE, value |-> w]

\* const k = knownness && knownness.length === n ? knownness.slice() : new Array(n).fill(1)
Weights(knownness, n) ==
  IF knownness.given /\ Len0(knownness.value) = n
  THEN knownness.value
  ELSE [s \in 0..(n - 1) |-> One]

\* The inner loop over s = 0..upto-1 for target t: <<lSum, rSum>>, each term
\* attention[t][s] * k[s] / (1 + dist).
RECURSIVE DecaySums(_, _, _, _)
DecaySums(att, k, t, upto) ==
  IF upto = 0 THEN <<Zero, Zero>>
  ELSE LET prev == DecaySums(att, k, t, upto - 1)
           s == upto - 1
           a == RMul(Get(att[t], s), k[s])
       IN  IF s < t THEN <<RAdd(prev[1], RDiv(a, Num(1 + (t - s)))), prev[2]>>
           ELSE IF s > t THEN <<prev[1], RAdd(prev[2], RDiv(a, Num(1 + (s - t))))>>
           ELSE prev

\* max > 0 ? values.map(v => v / max) : new Array(n).fill(0), max = Math.max(0, ...values)
MaxNormalize(values) ==
  LET max == MathMax({Zero} \cup Range(values))
  IN  IF RGt(max, Zero) THEN [i \in DOMAIN values |-> RDiv(values[i], max)]
      ELSE [i \in DOMAIN values |-> Zero]

\* integrationRaw: l + 0.5 * r
IntegrationRaw(att, k, n) ==
  [t \in 0..(n - 1) |->
     LET lr == DecaySums(att, k, t, n) IN RAdd(lr[1], RMul(Half, lr[2]))]

\* Faulty variant: the left share is added instead of subtracted.
ContributionRawAddsLeft(att, k, n) ==
  LET rightContribNorm == MaxNormalize([t \in 0..(n - 1) |-> DecaySums(att, k, t, n)[2]])
      leftContribNorm == MaxNormalize([t \in 0..(n - 1) |-> DecaySums(att, k, t, n)[1]])
  IN  [i \in 0..(n - 1) |-> RAdd(rightContribNorm[i], RMul(Half, leftContribNorm[i]))]

\* contributionRaw: rightContribNorm[i] - 0.5 * leftContribNorm[i]
ContributionRaw(att, k, n) ==
  LET rightContribNorm == MaxNormalize([t \in 0..(n - 1) |-> DecaySums(att, k, t, n)[2]])
      leftContribNorm == MaxNormalize([t \in 0..(n - 1) |-> DecaySums(att, k, t, n)[1]])
  IN  [i \in 0..(n - 1) |-> RSub(rightContribNorm[i], RMul(Half, leftContribNorm[i]))]

\* Faulty variant: the raw contribution divided by its maximum, the minimum ignored.
ContributionMaxOnly(raw) ==
  LET maxCR == MathMax({Zero} \cup Range(raw))
  IN  IF RGt(maxCR, Zero) THEN [i \in DOMAIN raw |-> RDiv(raw[i], maxCR)]
      ELSE [i \in DOMAIN raw |-> Zero]

\* maxCR > minCR ? raw.map(v => (v - minCR) / (maxCR - minCR)) : zeros, with
\* minCR = Math.min(0, ...raw), maxCR = Math.max(0, ...raw)
Contribution(raw) ==
  LET minCR == MathMin({Zero} \cup Range(raw))
      maxCR == MathMax({Zero} \cup Range(raw))
  IN  IF RGt(maxCR, minCR)
      THEN [i \in DOMAIN raw |-> RDiv(RSub(raw[i], minCR), RSub(maxCR, minCR))]
      ELSE [i \in DOMAIN raw |-> Zero]

\* Faulty variant: the two scores are summed, not their complements.
EffortRawSumsScores(integration, contribution) ==
  [i \in DOMAIN integration |-> RAdd(integration[i], contribution[i])]

\* effortRaw: (1 - integration[i]) + (1 - contribution[i])
EffortRaw(integration, contribution) ==
  [i \in DOMAIN integration |->
     RAdd(RSub(One, integration[i]), RSub(One, contribution[i]))]

\* The n === m test on the first row only.
IsSquareCheck(att, n) == n = Len0(att[0])

\* computeComprehension(attention, knownness): thrown, or the three score arrays.
ComputeComprehension(att, knownness) ==
  LET n == Len0(att)
      k == Weights(knownness, n)
      integration == MaxNormalize(IntegrationRaw(att, k, n))
      contribution == Contribution(ContributionRaw(att, k, n))
  IN  IF n = 0
      THEN [thrown |-> FALSE, benefit |-> <<>>, provisionQuality |-> <<>>, effort |-> <<>>]
      ELSE IF ~IsSquareCheck(att, n)
      THEN [thrown |-> TRUE, benefit |-> <<>>, provisionQuality |-> <<>>, effort |-> <<>>]
      ELSE [thrown |-> FALSE, benefit |-> integration, provisionQuality |-> contribution,
            effort |-> MaxNormalize(EffortRaw(integration, contribution))]

\* Faulty variant: the source at the read index is masked as well.
MaskHidesReadIndex(att, readIndex) ==
  [t \in 0..(Len0(att) - 1) |->
     [s \in 0..(Len0(att) - 1) |->
        IF s < readIndex THEN Get(att[t], s) ELSE Zero]]

\* Faulty variant: the mask lets the source after the read index through.
MaskOneSourceTooMany(att, readIndex) ==
  [t \in 0..(Len0(att) - 1) |->
     [s \in 0..(Len0(att) - 1) |-> IF s <= readIndex + 1 THEN Get(att[t], s) ELSE Zero]]

\* maskAttentionByReadIndex: out[s] = s <= readIndex ? row[s] : 0, always n x n.
MaskAttentionByReadIndex(att, readIndex) ==
  [t \in 0..(Len0(att) - 1) |->
     [s \in 0..(Len0(att) - 1) |-> IF s <= readIndex THEN Get(att[t], s) ELSE Zero]]

\* ------------------------------------------------ ComprehensionScoreboard
\* Array.from({length: n}, (_, i) => i).sort((a, b) => effort[a] - effort[b]):
\* the stable ascending order (effort holds no NaN: computeComprehension
\* returns zeros whenever a NaN reached one of its maxima).
SortedIndices(n, effort) ==
  CHOOSE p \in [1..n -> 0..(n - 1)] :
    /\ \A a, b \in 1..n : a # b => p[a] # p[b]
    /\ \A a, b \in 1..n :
         a < b => \/ RLt(effort[p[a]], effort[p[b]])
                  \/ (effort[p[a]] = effort[p[b]] /\ p[a] < p[b])

\* const n = Math.min(words.length, benefit.length, provisionQuality.length, effort.length)
Min4(a, b, c, d) ==
  CHOOSE m \in {a, b, c, d} : \A x \in {a, b, c, d} : m <= x

\* The component's result: null (shown FALSE), or the table's row order.
ComprehensionScoreboard(nWords, benefit, provisionQuality, effort) ==
  LET n == Min4(nWords, Len0(benefit), Len0(provisionQuality), Len0(effort))
  IN  IF n = 0 THEN [words |-> nWords, shown |-> FALSE, indices |-> <<>>]
      ELSE [words |-> nWords, shown |-> TRUE,
            indices |-> SortedIndices(n, effort)]

\* ------------------------------ App.fetchDynamicProbabilities (mask builder)
\* unknownTokenIndices.forEach(unknownIdx => { if (unknownIdx < modifiedAttention.length)
\*   modifiedAttention[unknownIdx] = modifiedAttention[unknownIdx].map(() => 0) })
\* on the deep copy attentionData.attention.map(row => [...row]).
MaskUnknownRows(att, unknown) ==
  [i \in DOMAIN att |->
     IF i \in unknown /\ i < Len0(att) THEN [s \in DOMAIN att[i] |-> Zero] ELSE att[i]]

\* const normReceived = currentReceived.map(...): the column totals of the
\* modified matrix on the range of the original matrix's column totals.
MaskNormReceived(n, att, mod, punct) ==
  LET currentReceived == Received(n, mod)
      min == OriginalMinReceived(n, att, punct)
      max == OriginalMaxReceived(n, att, punct)
  IN  [i \in DOMAIN currentReceived |->
         IF i \in punct THEN Zero ELSE Scale(currentReceived[i], min, max)]

\* One iteration of knownTokenIndices.forEach(iKnown => ...) of the mask
\* builder: the providers' cells of column iKnown of modifiedAttention grow by
\* prop * boost * (originalMaxReceived - originalMinReceived).
MaskKnownStep(mod, normRecv, span, iKnown) ==
  LET prevNormReceived == Get(normRecv, iKnown)
      boost == RSub(One, prevNormReceived)
      totalAttentionToKnown == ColumnReduce(mod, iKnown, Len0(mod))
  IN  IF RGt(boost, Zero) /\ RGt(totalAttentionToKnown, Zero)
      THEN [j \in DOMAIN mod |->
              IF j # iKnown /\ RGt(Get(mod[j], iKnown), Zero)
              THEN Put(mod[j], iKnown,
                       RAdd(mod[j][iKnown],
                            RMul(RMul(RDiv(mod[j][iKnown], totalAttentionToKnown), boost),
                                 span)))
              ELSE mod[j]]
      ELSE mod

\* The share `prop` of the boost for iKnown that the mask builder adds to
\* modifiedAttention[j][iKnown], 0 for a token it does not boost.
MaskProviderShare(mod, normRecv, iKnown, j) ==
  LET prevNormReceived == Get(normRecv, iKnown)
      boost == RSub(One, prevNormReceived)
      totalAttentionToKnown == ColumnReduce(mod, iKnown, Len0(mod))
  IN  IF /\ RGt(boost, Zero) /\ RGt(totalAttentionToKnown, Zero)
         /\ j # iKnown /\ RGt(Get(mod[j], iKnown), Zero)
      THEN RDiv(mod[j][iKnown], totalAttentionToKnown)
      ELSE Zero

RECURSIVE MaskKnownLoop(_, _, _, _, _)
MaskKnownLoop(mod, normRecv, span, known, upto) ==
  IF upto = 0 THEN mod
  ELSE MaskKnownStep(MaskKnownLoop(mod, normRecv, span, known, upto - 1),
                     normRecv, span, known[upto])

\* modifiedAttention as sent in custom_attention_mask.
CustomAttentionMask(n, att, unknown, known, punct) ==
  LET zeroed == MaskUnknownRows(att, unknown)
      span == RSub(OriginalMaxReceived(n, att, punct), OriginalMinReceived(n, att, punct))
  IN  IF Len(known) > 0
      THEN MaskKnownLoop(zeroed, MaskNormReceived(n, att, zeroed, punct), span,
                         known, Len(known))
      ELSE zeroed

\* -------------------------------------------- rearrangeWordsLeftAttention
\* The inner loop of leftRightScore over jdx = 0..upto-1: <<left, right>>.
RECURSIVE SideSums(_, _, _, _)
SideSums(att, ord, idx, upto) ==
  IF upto = 0 THEN <<Zero, Zero>>
  ELSE LET prev == SideSums(att, ord, idx, upto - 1)
           jdx == upto - 1
           a == Get(att[ord[idx]], ord[jdx])
       IN  IF jdx < idx THEN <<RAdd(prev[1], a), prev[2]>>
           ELSE IF jdx > idx THEN <<prev[1], RAdd(prev[2], a)>>
           ELSE prev

\* leftRightScore(order), the outer loop over idx = 0..upto-1: score += left - right.
RECURSIVE LeftRightScoreUpTo(_, _, _, _)
LeftRightScoreUpTo(att, ord, n, upto) ==
  IF upto = 0 THEN Zero
  ELSE LET lr == SideSums(att, ord, upto - 1, n)
       IN  RAdd(LeftRightScoreUpTo(att, ord, n, upto - 1), RSub(lr[1], lr[2]))

LeftRightScore(att, ord, n) == LeftRightScoreUpTo(att, ord, n, n)

\* const newOrder = order.slice(); [newOrder[i], newOrder[j]] = [newOrder[j], newOrder[i]]
Swapped(ord, i, j) ==
  [k \in DOMAIN ord |-> IF k = i THEN ord[j] ELSE IF k = j THEN ord[i] ELSE ord[k]]

\* order.map(i => order.map(j => attention[i][j]))
Rearranged(att, ord) ==
  [a \in DOMAIN ord |-> [b \in DOMAIN ord |-> Get(att[ord[a]], ord[b])]]

\* ------------------------------------------------------------------- state
VARIABLES
  words,                \* number of tokens (the strings are opaque)
  attention,            \* attention[i][j], an array of rows
  unknownTokenIndices,  \* indices marked unknown (only tested with includes)
  knownTokenIndices,    \* indices marked known, in forEach order
  punctuationIndices,   \* indices of punctuation tokens
  displayAttention,     \* AttentionHeatmap: attention with unknown rows zeroed
  provided,             \* row sums of displayAttention
  received,             \* column sums of displayAttention
  normProvided,         \* after the known-token loop
  normReceived,         \* after the known-token loop
  normalizedSums,       \* the combined score, after the second pass if any
  knownness,            \* optional weights of computeComprehension
  scores,               \* result of computeComprehension
  frames,               \* computeEffortTimeline: frames pushed so far
  readIndex,            \* computeEffortTimeline: loop variable i
  board,                \* result of ComprehensionScoreboard
  modifiedAttention,    \* mask builder: the matrix sent as custom_attention_mask
  order,                \* rearrangeWordsLeftAttention: the current order
  improved,             \* rearrangeWordsLeftAttention: the while loop's flag
  swapI,                \* rearrangeWordsLeftAttention: loop variable i
  swapJ,                \* rearrangeWordsLeftAttention: loop variable j
  newAttention,         \* rearrangeWordsLeftAttention: the matrix returned
  appUnknownTokenIndices, \* App: the useState value behind the unknown marks
  appKnownTokenIndices,   \* App: the useState value behind the known marks
  input,                \* App: the text typed, as its number of sentences
  sentencesPerGroup,    \* App: the group size chosen
  currentGroupIndex,    \* App: the group shown
  attentionData,        \* App: the data displayed (<<>> is null)
  allGroupsData,        \* App: the data of every group
  attentionError,       \* App: "none" (null) or the message shown
  runs,                 \* App: the fetchAttention runs awaiting the backend
  idx,                  \* EffortAnimation: the frame shown
  playing,              \* EffortAnimation: the Play / Pause state
  rafRef,               \* EffortAnimation: an animation frame is requested
  lastTs,               \* EffortAnimation: lastTs.current (NoTs is null)
  frameTs,              \* the timestamp of the last animation frame delivered
  ticks,                \* history: the number of setIdx calls made by step
  colorArr,             \* AttentionHeatmap: originalTextColorArr, the metric shown
  upperBandPercent,     \* AttentionHeatmap: percent of words in the upper band
  lowerBandPercent,     \* AttentionHeatmap: percent of words in the lower band
  upperThreshold,       \* AttentionHeatmap: computed by the threshold effect
  lowerThreshold,       \* AttentionHeatmap: computed by the threshold effect
  bandTables,           \* AttentionHeatmap: the words of the three band tables
  error,                \* what the last call threw: "none", or the error's name
  pc                    \* position of the modelled call

inputVars == <<words, attention, unknownTokenIndices, knownTokenIndices,
               punctuationIndices, knownness>>
heatmapVars == <<displayAttention, provided, received, normProvided, normReceived,
                 normalizedSums>>
scoreVars == <<scores, board>>
timelineVars == <<frames, readIndex>>
maskVars == <<modifiedAttention>>
rearrangeVars == <<order, improved, swapI, swapJ, newAttention>>
marksVars == <<appUnknownTokenIndices, appKnownTokenIndices>>
fetchVars == <<input, sentencesPerGroup, currentGroupIndex, attentionData,
               allGroupsData, attentionError, runs>>
animVars == <<idx, playing, rafRef, lastTs, frameTs, ticks>>
bandVars == <<colorArr, upperBandPercent, lowerBandPercent, upperThreshold,
              lowerThreshold, bandTables>>
uiVars == <<marksVars, fetchVars, animVars, bandVars>>

vars == <<inputVars, heatmapVars, scoreVars, timelineVars, maskVars, rearrangeVars,
          uiVars, error, pc>>

NoScores == [thrown |-> FALSE, benefit |-> <<>>, provisionQuality |-> <<>>, effort |-> <<>>]
NoBoard == [words |-> 0, shown |-> FALSE, indices |-> <<>>]

\* lastTs.current = null.
NoTs == -1

NoBandTables == [upper |-> {}, middle |-> {}, lower |-> {}]

\* useState(20), useState(20), useState(0.6), useState(0.4).
DefaultBands ==
  /\ upperBandPercent = 20 /\ lowerBandPercent = 20
  /\ upperThreshold = Rat(3, 5) /\ lowerThreshold = Rat(2, 5)

\* The components' own state as it is when they are mounted.
NoUi ==
  /\ colorArr = <<>> /\ DefaultBands /\ bandTables = NoBandTables
  /\ appUnknownTokenIndices = {} /\ appKnownTokenIndices = <<>>
  /\ input = 0 /\ sentencesPerGroup = 1 /\ currentGroupIndex = 0
  /\ attentionData = <<>> /\ allGroupsData = <<>> /\ attentionError = "none"
  /\ runs = <<>>
  /\ idx = 0 /\ playing = FALSE /\ rafRef = FALSE /\ lastTs = NoTs
  /\ frameTs = 0 /\ ticks = 0

\* Nothing computed yet.
NoOutputs ==
  /\ NoUi
  /\ displayAttention = <<>> /\ provided = <<>> /\ received = <<>>
  /\ normProvided = <<>> /\ normReceived = <<>> /\ normalizedSums = <<>>
  /\ scores = NoScores /\ board = NoBoard
  /\ frames = <<>> /\ readIndex = 0
  /\ modifiedAttention = <<>>
  /\ order = <<>> /\ improved = FALSE /\ swapI = 0 /\ swapJ = 0 /\ newAttention = <<>>
  /\ error = "none"

\* ------------------------------------------- the heatmap's render (Spec)
\* Subsets of S with at most k elements.
SubsetsUpTo(S, k) == {x \in SUBSET S : Cardinality(x) <= k}

\* The total of the entries of a matrix of integers.
EntriesTotal(att) == ReduceSum(Provided(att), Len0(att))[1]

\* The number of marks a render of the matrix att may carry: at most MaxMarks,
\* and at most what the tokens and the matrix total leave of MaxSize.
MarksFor(att) ==
  LET rest == MaxSize - Len0(att) - EntriesTotal(att)
  IN  IF rest < MaxMarks THEN rest ELSE MaxMarks

\* The caller passes at most MarksFor(attention) marks in all (unknown, known,
\* punctuation).
Init ==
  /\ words \in 0..MaxN
  /\ attention \in SquareMatrices(words)
  /\ knownTokenIndices \in SeqsUpTo(IndexInputs(words), MarksFor(attention))
  /\ unknownTokenIndices \in
       SubsetsUpTo(IndexInputs(words), MarksFor(attention) - Len(knownTokenIndices))
  /\ punctuationIndices \in
       SubsetsUpTo(0..(words - 1),
                   MarksFor(attention) - Len(knownTokenIndices)
                     - Cardinality(unknownTokenIndices))
  /\ knownness = NoKnownness
  /\ NoOutputs
  /\ pc = "props"

\* One render of AttentionHeatmap with the current props.
Render ==
  /\ pc = "props"
  /\ displayAttention' = DisplayAttention(attention, unknownTokenIndices)
  /\ provided' = Provided(displayAttention')
  /\ received' = Received(words, displayAttention')
  /\ LET st == Adjusted(words, attention, unknownTokenIndices, knownTokenIndices,
                        punctuationIndices)
     IN  /\ normReceived' = st[1]
         /\ normProvided' = st[2]
         /\ normalizedSums' =
              NormalizedSums(words, attention, received', provided', st,
                             unknownTokenIndices, knownTokenIndices, punctuationIndices)
  /\ error' = "none"
  /\ pc' = "rendered"
  /\ UNCHANGED <<uiVars, inputVars, scoreVars, timelineVars, maskVars, rearrangeVars>>

Next == Render

Spec == Init /\ [][Next]_vars

\* ----------------------- the render without a known token (SpecUnknown)
\* The number of marks a render of the matrix att without a known token may
\* carry: at most MaxFlags, and at most what the tokens and the matrix total
\* leave of MaxSize.
FlagsFor(att) ==
  LET rest == MaxSize - Len0(att) - EntriesTotal(att)
  IN  IF rest < MaxFlags THEN rest ELSE MaxFlags

\* Larger matrices and totals than in Init, a few valid unknown / punctuation
\* marks and no known token.
InitUnknown ==
  /\ words \in 0..MaxWords
  /\ attention \in MatricesOfTotal(words, MaxTotal)
  /\ knownTokenIndices = <<>>
  /\ unknownTokenIndices \in SubsetsUpTo(0..(words - 1), FlagsFor(attention))
  /\ punctuationIndices \in
       SubsetsUpTo(0..(words - 1),
                   FlagsFor(attention) - Cardinality(unknownTokenIndices))
  /\ knownness = NoKnownness
  /\ NoOutputs
  /\ pc = "props"

SpecUnknown == InitUnknown /\ [][Next]_vars

\* --------------------- computeComprehension and the scoreboard (SpecScore)
\* Matrices of n rows in which row r has len cells instead of n.
SkewedMatrices(n, r, len) ==
  {[t \in 0..(n - 1) |->
      IF t < r THEN [c \in 0..(n - 1) |-> Num(v[t * n + c + 1])]
      ELSE IF t = r THEN [c \in 0..(len - 1) |-> Num(v[r * n + c + 1])]
      ELSE [c \in 0..(n - 1) |-> Num(v[(t - 1) * n + len + c + 1])]] :
     v \in Vecs((n - 1) * n + len, MaxMass)}

\* The matrices a caller passes: square, or with one row a cell short or long.
InputMatrices(n) ==
  SquareMatrices(n) \cup
  UNION {SkewedMatrices(n, r, len) : r \in 0..(n - 1), len \in {n - 1, n + 1}}

\* The knownness a caller passes: none, or weights for n - 1, n or n + 1 tokens.
InputKnownness(n) ==
  {NoKnownness} \cup
  {GivenKnownness(ToArray(v)) :
     v \in UNION {Vecs(len, MaxWeight) : len \in {n - 1, n, n + 1} \cap Nat}}

NoMarks ==
  unknownTokenIndices = {} /\ knownTokenIndices = <<>> /\ punctuationIndices = {}

InitScore ==
  /\ words \in 0..MaxN
  /\ attention \in InputMatrices(words)
  /\ knownness \in InputKnownness(words)
  /\ NoMarks
  /\ NoOutputs
  /\ pc = "idle"

\* A call of computeComprehension(attention, knownness).
CallComputeComprehension ==
  /\ pc = "idle"
  /\ scores' = ComputeComprehension(attention, knownness)
  /\ error' = IF scores'.thrown THEN "Error" ELSE "none"
  /\ pc' = "scored"
  /\ UNCHANGED <<uiVars, inputVars, heatmapVars, board, timelineVars, maskVars, rearrangeVars>>

\* The scoreboard rendered with the returned scores and a words array of
\* nWords entries.
RenderScoreboard ==
  /\ pc = "scored"
  /\ ~scores.thrown
  /\ \E nWords \in 0..(Len0(attention) + 1) :
       board' = ComprehensionScoreboard(nWords, scores.benefit,
                                        scores.provisionQuality, scores.effort)
  /\ error' = "none"
  /\ pc' = "board"
  /\ UNCHANGED <<uiVars, inputVars, heatmapVars, scores, timelineVars, maskVars, rearrangeVars>>

NextScore == CallComputeComprehension \/ RenderScoreboard

SpecScore == InitScore /\ [][NextScore]_vars

\* ------------------------------------- computeEffortTimeline (SpecTimeline)
\* The knownness passed with an n x n matrix: none, or one weight per token.
TimelineKnownness(n) ==
  {NoKnownness} \cup {GivenKnownness(ToArray(v)) : v \in Vecs(n, MaxWeight)}

InitTimeline ==
  /\ words \in 0..MaxN
  /\ attention \in SquareMatrices(words)
  /\ knownness \in TimelineKnownness(words)
  /\ NoMarks
  /\ NoOutputs
  /\ pc = "idle"

\* const n = attention.length; if (n === 0) return []; const frames = []; i = 0
TimelineEnter ==
  /\ pc = "idle"
  /\ frames' = <<>>
  /\ readIndex' = 0
  /\ pc' = IF Len0(attention) = 0 THEN "returned" ELSE "loop"
  /\ UNCHANGED <<uiVars, inputVars, heatmapVars, scoreVars, maskVars, rearrangeVars, error>>

\* Faulty variant: each frame is put in front of the frames collected so far.
TimelineStepPrepends ==
  /\ pc = "loop"
  /\ readIndex < Len0(attention)
  /\ LET masked == MaskAttentionByReadIndex(attention, readIndex)
         result == ComputeComprehension(masked, knownness)
     IN  IF result.thrown
         THEN /\ error' = "Error"
              /\ pc' = "thrown"
              /\ UNCHANGED timelineVars
         ELSE /\ frames' = <<result.effort>> \o frames
              /\ readIndex' = readIndex + 1
              /\ UNCHANGED <<error, pc>>
  /\ UNCHANGED <<uiVars, inputVars, heatmapVars, scoreVars, maskVars, rearrangeVars>>

\* One iteration of for (let i = 0; i < n; i++) { ... frames.push(effort) };
\* an error thrown by computeComprehension leaves the function.
TimelineStep ==
  /\ pc = "loop"
  /\ readIndex < Len0(attention)
  /\ LET masked == MaskAttentionByReadIndex(attention, readIndex)
         result == ComputeComprehension(masked, knownness)
     IN  IF result.thrown
         THEN /\ error' = "Error"
              /\ pc' = "thrown"
              /\ UNCHANGED timelineVars
         ELSE /\ frames' = Append(frames, result.effort)
              /\ readIndex' = readIndex + 1
              /\ UNCHANGED <<error, pc>>
  /\ UNCHANGED <<uiVars, inputVars, heatmapVars, scoreVars, maskVars, rearrangeVars>>

\* return frames
TimelineReturn ==
  /\ pc = "loop"
  /\ ~(readIndex < Len0(attention))
  /\ pc' = "returned"
  /\ UNCHANGED <<uiVars, inputVars, heatmapVars, scoreVars, timelineVars, maskVars,
                 rearrangeVars, error>>

NextTimeline == TimelineEnter \/ TimelineStep \/ TimelineReturn

SpecTimeline == InitTimeline /\ [][NextTimeline]_vars

\* ---------------------------------------- every call of the core (SpecCalls)
\* The effect of App that builds the mask: the marks come from the check boxes
\* of the words shown, one per token.
InitMask ==
  /\ words \in 0..MaxN
  /\ attention \in SquareMatrices(words)
  /\ knownTokenIndices \in SeqsUpTo(0..(words - 1), MaxMarks)
  /\ unknownTokenIndices \in
       SubsetsUpTo(0..(words - 1), MaxMarks - Len(knownTokenIndices))
  /\ punctuationIndices \in
       SubsetsUpTo(0..(words - 1),
                   MaxMarks - Len(knownTokenIndices) - Cardinality(unknownTokenIndices))
  /\ knownness = NoKnownness
  /\ NoOutputs
  /\ pc = "effect"

\* Faulty variant: the copy is shallow ([...attentionData.attention]), so the
\* boosts written to the rows that were not replaced land in the caller's rows.
BuildAttentionMaskInPlace ==
  /\ pc = "effect"
  /\ modifiedAttention' = CustomAttentionMask(words, attention, unknownTokenIndices,
                                              knownTokenIndices, punctuationIndices)
  /\ attention' = [i \in DOMAIN attention |->
                     IF i \in unknownTokenIndices THEN attention[i]
                     ELSE modifiedAttention'[i]]
  /\ pc' = "masked"
  /\ UNCHANGED <<uiVars, words, unknownTokenIndices, knownTokenIndices,
                 punctuationIndices, knownness, heatmapVars, scoreVars, timelineVars, rearrangeVars, error>>

\* fetchDynamicProbabilities up to the request: modifiedAttention is built on a
\* deep copy of attentionData.attention.
BuildAttentionMask ==
  /\ pc = "effect"
  /\ modifiedAttention' = CustomAttentionMask(words, attention, unknownTokenIndices,
                                              knownTokenIndices, punctuationIndices)
  /\ pc' = "masked"
  /\ UNCHANGED <<uiVars, inputVars, heatmapVars, scoreVars, timelineVars, rearrangeVars, error>>

InitRearrange ==
  /\ words \in 0..MaxN
  /\ attention \in SquareMatrices(words)
  /\ knownness = NoKnownness
  /\ NoMarks
  /\ NoOutputs
  /\ pc = "call"

\* let order = Array.from({ length: n }, (_, i) => i); let improved = true
RearrangeEnter ==
  /\ pc = "call"
  /\ order' = [i \in 0..(words - 1) |-> i]
  /\ improved' = TRUE
  /\ pc' = "while"
  /\ UNCHANGED <<uiVars, inputVars, heatmapVars, scoreVars, timelineVars, maskVars,
                 swapI, swapJ, newAttention, error>>

\* while (improved) { improved = false; for (let i = 0; ...) for (let j = i + 1; ...)
RearrangeStartPass ==
  /\ pc = "while"
  /\ improved
  /\ improved' = FALSE
  /\ swapI' = 0
  /\ swapJ' = 1
  /\ pc' = "for"
  /\ UNCHANGED <<uiVars, inputVars, heatmapVars, scoreVars, timelineVars, maskVars,
                 order, newAttention, error>>

\* Faulty variant: the swap is kept when it scores strictly lower.
RearrangeTrySwapKeepsWorse ==
  /\ pc = "for"
  /\ swapI < words /\ swapJ < words
  /\ LET newOrder == Swapped(order, swapI, swapJ)
     IN  IF RLt(LeftRightScore(attention, newOrder, words),
                LeftRightScore(attention, order, words))
         THEN order' = newOrder /\ improved' = TRUE
         ELSE UNCHANGED <<order, improved>>
  /\ swapJ' = swapJ + 1
  /\ UNCHANGED <<uiVars, inputVars, heatmapVars, scoreVars, timelineVars, maskVars,
                 swapI, newAttention, error, pc>>

\* Faulty variant: a swap that scores the same is kept too.
RearrangeTrySwapKeepsTies ==
  /\ pc = "for"
  /\ swapI < words /\ swapJ < words
  /\ LET newOrder == Swapped(order, swapI, swapJ)
     IN  IF RLe(LeftRightScore(attention, order, words),
                LeftRightScore(attention, newOrder, words))
         THEN order' = newOrder /\ improved' = TRUE
         ELSE UNCHANGED <<order, improved>>
  /\ swapJ' = swapJ + 1
  /\ UNCHANGED <<uiVars, inputVars, heatmapVars, scoreVars, timelineVars, maskVars,
                 swapI, newAttention, error, pc>>

\* The body of the inner loop: the swap of positions i and j is kept when it
\* scores strictly higher.
RearrangeTrySwap ==
  /\ pc = "for"
  /\ swapI < words /\ swapJ < words
  /\ LET newOrder == Swapped(order, swapI, swapJ)
     IN  IF RGt(LeftRightScore(attention, newOrder, words),
                LeftRightScore(attention, order, words))
         THEN order' = newOrder /\ improved' = TRUE
         ELSE UNCHANGED <<order, improved>>
  /\ swapJ' = swapJ + 1
  /\ UNCHANGED <<uiVars, inputVars, heatmapVars, scoreVars, timelineVars, maskVars,
                 swapI, newAttention, error, pc>>

\* The inner loop ends: ++i, j = i + 1.
RearrangeNextI ==
  /\ pc = "for"
  /\ swapI < words /\ ~(swapJ < words)
  /\ swapI' = swapI + 1
  /\ swapJ' = swapI + 2
  /\ UNCHANGED <<uiVars, inputVars, heatmapVars, scoreVars, timelineVars, maskVars,
                 order, improved, newAttention, error, pc>>

\* The outer loop ends: back to the while test.
RearrangePassDone ==
  /\ pc = "for"
  /\ ~(swapI < words)
  /\ pc' = "while"
  /\ UNCHANGED <<uiVars, inputVars, heatmapVars, scoreVars, timelineVars, maskVars,
                 rearrangeVars, error>>

\* return { newWords, newAttention, order }
RearrangeReturn ==
  /\ pc = "while"
  /\ ~improved
  /\ newAttention' = Rearranged(attention, order)
  /\ pc' = "rearranged"
  /\ UNCHANGED <<uiVars, inputVars, heatmapVars, scoreVars, timelineVars, maskVars,
                 order, improved, swapI, swapJ, error>>

NextRearrange ==
  \/ RearrangeEnter \/ RearrangeStartPass \/ RearrangeTrySwap
  \/ RearrangeNextI \/ RearrangePassDone \/ RearrangeReturn

\* rearrangeWordsLeftAttention on its own, for up to MaxReorder words
\* (SpecRearrange); the call is not interrupted (SpecRearrangeFair).
InitReorder ==
  /\ words \in 0..MaxReorder
  /\ attention \in MatricesOfTotal(words, MaxMass)
  /\ knownness = NoKnownness
  /\ NoMarks
  /\ NoOutputs
  /\ pc = "call"

SpecRearrange == InitReorder /\ [][NextRearrange]_vars

\* The call runs to its end: weak fairness of every step.  For the body of
\* the inner loop WF_vars(RearrangeTrySwap) is written out with the step's
\* enabling condition (the loop tests), which the step always changes.
SpecRearrangeFair ==
  /\ SpecRearrange
  /\ WF_vars(RearrangeEnter) /\ WF_vars(RearrangeStartPass)
  /\ WF_vars(RearrangeNextI) /\ WF_vars(RearrangePassDone)
  /\ WF_vars(RearrangeReturn)
  /\ \/ []<>~(pc = "for" /\ swapI < words /\ swapJ < words)
     \/ []<><<RearrangeTrySwap>>_vars

\* --------------------------------------------- EffortAnimation (SpecAnimation)
\* const interval = 1000 / fps, in the unit of the timestamps: half an interval.
Interval == 2

\* useMemo(() => computeEffortTimeline(attention, knownness)): one effort
\* vector per reading position.
EffortTimeline(att, weights) ==
  [i \in 1..Len0(att) |->
     ComputeComprehension(MaskAttentionByReadIndex(att, i - 1), weights).effort]

\* EffortAnimation mounted with the words and the attention of a text of up
\* to MaxFrames tokens, holding at most one unit of attention: idx = 0, not
\* playing, both refs null.
InitAnimation ==
  /\ words \in 0..MaxFrames
  /\ attention \in MatricesOfTotal(words, 1)
  /\ knownness = NoKnownness
  /\ NoMarks
  /\ displayAttention = <<>> /\ provided = <<>> /\ received = <<>>
  /\ normProvided = <<>> /\ normReceived = <<>> /\ normalizedSums = <<>>
  /\ scores = NoScores /\ board = NoBoard
  /\ frames = EffortTimeline(attention, knownness)
  /\ readIndex = 0
  /\ modifiedAttention = <<>>
  /\ order = <<>> /\ improved = FALSE /\ swapI = 0 /\ swapJ = 0 /\ newAttention = <<>>
  /\ NoUi
  /\ error = "none"
  /\ pc = "animation"

\* if (!words.length || !frames.length) return null: otherwise the button
\* and the slider are shown.
AnimationShown == words # 0 /\ Len(frames) # 0

UnchangedByAnimation ==
  UNCHANGED <<marksVars, fetchVars, bandVars, inputVars, heatmapVars, scoreVars, timelineVars,
              maskVars, rearrangeVars, error, pc>>

\* onClick of the Play / Pause button: setPlaying(p => !p); the render that
\* follows runs the cleanup of the play effect when it was playing
\* (cancelAnimationFrame, both refs null) and the effect itself when it now
\* plays (requestAnimationFrame).
TogglePlaying ==
  /\ pc = "animation"
  /\ AnimationShown
  /\ playing' = ~playing
  /\ rafRef' = playing'
  /\ lastTs' = IF playing THEN NoTs ELSE lastTs
  /\ UNCHANGED <<idx, frameTs, ticks>>
  /\ UnchangedByAnimation

\* onChange of the range input (min 0, max Math.max(0, frames.length - 1)):
\* setIdx(Number(e.target.value)).
MoveSlider(value) ==
  /\ pc = "animation"
  /\ AnimationShown
  /\ value # idx
  /\ idx' = value
  /\ UNCHANGED <<playing, rafRef, lastTs, frameTs, ticks>>
  /\ UnchangedByAnimation

\* Faulty variant: the index is advanced without the modulo.
AnimationFrameNoWrap(ts) ==
  /\ pc = "animation"
  /\ rafRef
  /\ LET last == IF lastTs = NoTs THEN ts ELSE lastTs
         dt == ts - last
     IN  IF dt >= Interval
         THEN /\ idx' = idx + 1
              /\ lastTs' = ts
              /\ ticks' = ticks + 1
         ELSE /\ idx' = idx
              /\ lastTs' = last
              /\ ticks' = ticks
  /\ rafRef' = TRUE
  /\ frameTs' = ts
  /\ UNCHANGED playing
  /\ UnchangedByAnimation

\* The browser delivers the requested animation frame: step(ts).
AnimationFrame(ts) ==
  /\ pc = "animation"
  /\ rafRef
  /\ LET last == IF lastTs = NoTs THEN ts ELSE lastTs
         dt == ts - last
     IN  IF dt >= Interval
         THEN /\ idx' = (idx + 1) % (IF Len(frames) > 1 THEN Len(frames) ELSE 1)
              /\ lastTs' = ts
              /\ ticks' = ticks + 1
         ELSE /\ idx' = idx
              /\ lastTs' = last
              /\ ticks' = ticks
  /\ rafRef' = TRUE
  /\ frameTs' = ts
  /\ UNCHANGED playing
  /\ UnchangedByAnimation

NextAnimation ==
  \/ TogglePlaying
  \/ \E value \in 0..(IF Len(frames) > 1 THEN Len(frames) - 1 ELSE 0) : MoveSlider(value)
  \/ \E ts \in (frameTs + 1)..MaxTime : AnimationFrame(ts)

SpecAnimation == InitAnimation /\ [][NextAnimation]_vars

\* ----------------------------------- the scoreboard's band tables (SpecBands)
\* The indices below upto that are not punctuation, in ascending order.
RECURSIVE KeptIndices(_, _)
KeptIndices(upto, punct) ==
  IF upto = 0 THEN <<>>
  ELSE IF (upto - 1) \in punct THEN KeptIndices(upto - 1, punct)
  ELSE Append(KeptIndices(upto - 1, punct), upto - 1)

\* originalTextColorArr.filter((_, i) => !punctuationIndices.includes(i))
FilteredColorArr(arr, punct) ==
  LET kept == KeptIndices(Len0(arr), punct)
  IN  [i \in 0..(Len(kept) - 1) |-> arr[kept[i + 1]]]

\* [...arr].sort((a, b) => a - b)
SortedAscending(arr) ==
  LET p == SortedIndices(Len0(arr), arr)
  IN  [i \in 0..(Len0(arr) - 1) |-> arr[p[i + 1]]]

\* Math.round(n / d) for n >= 0, d > 0: halves go up.
MathRound(n, d) == (2 * n + d) \div (2 * d)

\* Math.max(0, Math.min(len - 1, i))
ClampIndex(i, len) == IF i > len - 1 THEN (IF len - 1 < 0 THEN 0 ELSE len - 1)
                      ELSE IF i < 0 THEN 0 ELSE i

\* computePercentile(arr, percent): sorted[round((1 - percent / 100) * (length - 1))]
ComputePercentile(arr, percent) ==
  IF Len0(arr) = 0 THEN Zero
  ELSE SortedAscending(arr)[ClampIndex(MathRound((100 - percent) * (Len0(arr) - 1), 100),
                                       Len0(arr))]

\* computeLowerPercentile(arr, percent): sorted[round((percent / 100) * (length - 1))]
ComputeLowerPercentile(arr, percent) ==
  IF Len0(arr) = 0 THEN Zero
  ELSE SortedAscending(arr)[ClampIndex(MathRound(percent * (Len0(arr) - 1), 100),
                                       Len0(arr))]

\* getMetricValueForBanding(item): the value at the word's position in the
\* filtered array.
MetricValueForBanding(arr, punct, index) ==
  LET filteredIndex == Len(KeptIndices(index + 1, punct)) - 1
  IN  Get(FilteredColorArr(arr, punct), filteredIndex)

\* scoreboard: the rows of the words that are not punctuation.
ScoreboardRows(arr, punct) == (0..(Len0(arr) - 1)) \ punct

\* upperBandWords / middleBandWords / lowerBandWords, each a filter of the
\* scoreboard (the tables keep the scoreboard's order; only membership is kept).
BandTables(arr, punct, upper, lower) ==
  [upper |-> {r \in ScoreboardRows(arr, punct) :
                RLe(upper, MetricValueForBanding(arr, punct, r))},
   middle |-> {r \in ScoreboardRows(arr, punct) :
                 /\ RGt(MetricValueForBanding(arr, punct, r), lower)
                 /\ RLt(MetricValueForBanding(arr, punct, r), upper)},
   lower |-> {r \in ScoreboardRows(arr, punct) :
                RLe(MetricValueForBanding(arr, punct, r), lower)}]

\* The metric values of a render: multiples of 1 / MaxLevel in 0..1.
MetricLevels == {Rat(v, MaxLevel) : v \in 0..MaxLevel}

\* The band percents a user types (clamped to 0..100 by the handler).
BandPercents == {0, 20, 50, 100}

\* The first render of the heatmap with a metric per word: the default
\* percents and thresholds, the tables filtered with the default thresholds.
InitBands ==
  /\ words \in 0..MaxBandWords
  /\ attention = <<>>
  /\ unknownTokenIndices = {} /\ knownTokenIndices = <<>>
  /\ punctuationIndices \in SUBSET (0..(words - 1))
  /\ knownness = NoKnownness
  /\ displayAttention = <<>> /\ provided = <<>> /\ received = <<>>
  /\ normProvided = <<>> /\ normReceived = <<>> /\ normalizedSums = <<>>
  /\ scores = NoScores /\ board = NoBoard
  /\ frames = <<>> /\ readIndex = 0
  /\ modifiedAttention = <<>>
  /\ order = <<>> /\ improved = FALSE /\ swapI = 0 /\ swapJ = 0 /\ newAttention = <<>>
  /\ appUnknownTokenIndices = {} /\ appKnownTokenIndices = <<>>
  /\ input = 0 /\ sentencesPerGroup = 1 /\ currentGroupIndex = 0
  /\ attentionData = <<>> /\ allGroupsData = <<>> /\ attentionError = "none"
  /\ runs = <<>>
  /\ idx = 0 /\ playing = FALSE /\ rafRef = FALSE /\ lastTs = NoTs
  /\ frameTs = 0 /\ ticks = 0
  /\ colorArr \in [0..(words - 1) -> MetricLevels]
  /\ DefaultBands
  /\ bandTables = BandTables(colorArr, punctuationIndices, upperThreshold, lowerThreshold)
  /\ error = "none"
  /\ pc = "firstRender"

UnchangedByBands ==
  UNCHANGED <<marksVars, fetchVars, animVars, inputVars, heatmapVars, scoreVars,
              timelineVars, maskVars, rearrangeVars, error>>

\* The threshold effect with the percents upperPercent and lowerPercent, and
\* the render that follows its setUpperThreshold / setLowerThreshold.
ThresholdEffect(upperPercent, lowerPercent) ==
  LET filteredColorArr == FilteredColorArr(colorArr, punctuationIndices)
  IN  /\ upperThreshold' = ComputePercentile(filteredColorArr, upperPercent)
      /\ lowerThreshold' = ComputeLowerPercentile(filteredColorArr, lowerPercent)
      /\ bandTables' = BandTables(colorArr, punctuationIndices,
                                  upperThreshold', lowerThreshold')

\* The effect after the first render.
MountThresholds ==
  /\ pc = "firstRender"
  /\ ThresholdEffect(upperBandPercent, lowerBandPercent)
  /\ pc' = "bands"
  /\ UNCHANGED <<colorArr, upperBandPercent, lowerBandPercent>>
  /\ UnchangedByBands

\* onChange of the upper band input: setUpperBandPercent, then the effect.
ChangeUpperBandPercent(percent) ==
  /\ pc = "bands"
  /\ percent # upperBandPercent
  /\ upperBandPercent' = percent
  /\ ThresholdEffect(percent, lowerBandPercent)
  /\ UNCHANGED <<colorArr, lowerBandPercent, pc>>
  /\ UnchangedByBands

\* onChange of the lower band input: setLowerBandPercent, then the effect.
ChangeLowerBandPercent(percent) ==
  /\ pc = "bands"
  /\ percent # lowerBandPercent
  /\ lowerBandPercent' = percent
  /\ ThresholdEffect(upperBandPercent, percent)
  /\ UNCHANGED <<colorArr, upperBandPercent, pc>>
  /\ UnchangedByBands

NextBands ==
  \/ MountThresholds
  \/ \E percent \in BandPercents : ChangeUpperBandPercent(percent)
  \/ \E percent \in BandPercents : ChangeLowerBandPercent(percent)

SpecBands == InitBands /\ [][NextBands]_vars

\* A caller makes one of the calls: a render, computeComprehension (and the
\* scoreboard), computeEffortTimeline, the mask builder or the rearrangement.
InitCalls == Init \/ InitTimeline \/ InitMask \/ InitRearrange

NextCalls == Next \/ NextScore \/ NextTimeline \/ BuildAttentionMask \/ NextRearrange

SpecCalls == InitCalls /\ [][NextCalls]_vars

\* ------------------------------ the Mark-As buttons of the scoreboard (SpecMarks)
\* array.filter(i => i !== index) of an array without repetitions.
Without(arr, index) ==
  LET Other(x) == x # index IN SelectSeq(arr, Other)

\* App is mounted with both lists empty and renders the heatmap with them; the
\* matrix plays no part in the handlers.
InitMarks ==
  /\ words \in 1..MaxN
  /\ attention = <<>>
  /\ unknownTokenIndices = {} /\ knownTokenIndices = <<>>
  /\ punctuationIndices = {}
  /\ knownness = NoKnownness
  /\ NoOutputs
  /\ pc = "mounted"

\* onClick of '?' in the row of token index.  The handler was created by the
\* last render: unknownTokenIndices and knownTokenIndices are the props of that
\* render, and each setter replaces App's state with the value it is given.
ClickMarkUnknown(index) ==
  /\ pc = "mounted"
  /\ IF index \in unknownTokenIndices
     THEN /\ appUnknownTokenIndices' = unknownTokenIndices \ {index}
          /\ UNCHANGED appKnownTokenIndices
     ELSE /\ appUnknownTokenIndices' = (unknownTokenIndices \ {index}) \cup {index}
          /\ appKnownTokenIndices' = Without(knownTokenIndices, index)
  /\ UNCHANGED <<fetchVars, animVars, bandVars, inputVars, heatmapVars, scoreVars, timelineVars, maskVars,
                 rearrangeVars, error, pc>>

\* onClick of the check mark in the row of token index.
ClickMarkKnown(index) ==
  /\ pc = "mounted"
  /\ IF \E x \in 1..Len(knownTokenIndices) : knownTokenIndices[x] = index
     THEN /\ appKnownTokenIndices' = Without(knownTokenIndices, index)
          /\ UNCHANGED appUnknownTokenIndices
     ELSE /\ appKnownTokenIndices' = Append(Without(knownTokenIndices, index), index)
          /\ appUnknownTokenIndices' = unknownTokenIndices \ {index}
  /\ UNCHANGED <<fetchVars, animVars, bandVars, inputVars, heatmapVars, scoreVars, timelineVars, maskVars,
                 rearrangeVars, error, pc>>

\* React renders App again after a state change: the heatmap gets the current
\* state as props (App.tsx lines 766-774) and its handlers close over them.
\* What the render computes from the props is the subject of Render.
RerenderMarks ==
  /\ pc = "mounted"
  /\ <<unknownTokenIndices, knownTokenIndices>>
       # <<appUnknownTokenIndices, appKnownTokenIndices>>
  /\ unknownTokenIndices' = appUnknownTokenIndices
  /\ knownTokenIndices' = appKnownTokenIndices
  /\ UNCHANGED <<words, attention, punctuationIndices, knownness, heatmapVars,
                 scoreVars, timelineVars, maskVars, rearrangeVars, uiVars, error, pc>>

NextMarks ==
  \/ \E index \in 0..(words - 1) : ClickMarkUnknown(index)
  \/ \E index \in 0..(words - 1) : ClickMarkKnown(index)
  \/ RerenderMarks

SpecMarks == InitMarks /\ [][NextMarks]_vars

\* ------------------------------------ App's fetchAttention effect (SpecFetch)
\* The texts are the prefixes of one text: text n is its first n sentences (0
\* is the blank text), and a group is the pair <<first, last>> of the sentences
\* it joins.
\* getSentenceGroups(text, groupSize)
GetSentenceGroups(text, groupSize) ==
  [j \in 1..((text + groupSize - 1) \div groupSize) |->
     <<(j - 1) * groupSize + 1,
       IF j * groupSize < text THEN j * groupSize ELSE text>>]

\* What the backend answers for a group: the tokens and attention of its text.
AttentionOf(group) == group

\* groupResults[Math.min(currentGroupIndex, groupResults.length - 1)], null
\* when there is no such element.
CurrentGroup(groupResults, groupIndex) ==
  LET at == IF groupIndex < Len(groupResults) - 1 THEN groupIndex
            ELSE Len(groupResults) - 1
  IN  IF at >= 0 THEN groupResults[at + 1] ELSE <<>>

\* The sequence without its element at position r.
RemoveAt(seq, r) == SubSeq(seq, 1, r - 1) \o SubSeq(seq, r + 1, Len(seq))

\* App is mounted; the effect's first run finds the text blank.
InitFetch ==
  /\ words = 0 /\ attention = <<>>
  /\ NoMarks
  /\ knownness = NoKnownness
  /\ NoOutputs
  /\ pc = "app"

\* The effect after a render in which input, sentencesPerGroup or
\* currentGroupIndex changed: fetchAttention() up to its first await.
FetchAttentionStart(text, groupSize, groupIndex) ==
  IF text = 0 \/ Len(GetSentenceGroups(text, groupSize)) = 0
  THEN /\ attentionData' = <<>>
       /\ allGroupsData' = <<>>
       /\ attentionError' = "none"
       /\ UNCHANGED runs
  ELSE /\ attentionError' = "none"
       /\ runs' = Append(runs, [groups |-> GetSentenceGroups(text, groupSize),
                                groupIndex |-> groupIndex,
                                groupResults |-> <<>>])
       /\ UNCHANGED <<attentionData, allGroupsData>>

UnchangedByFetch ==
  UNCHANGED <<marksVars, animVars, bandVars, inputVars, heatmapVars, scoreVars, timelineVars, maskVars,
              rearrangeVars, error, pc>>

\* onChange of the textarea: setInput(e.target.value), then the effect.
ChangeInput(text) ==
  /\ pc = "app"
  /\ Len(runs) < MaxRuns
  /\ text # input
  /\ input' = text
  /\ FetchAttentionStart(text, sentencesPerGroup, currentGroupIndex)
  /\ UNCHANGED <<sentencesPerGroup, currentGroupIndex>>
  /\ UnchangedByFetch

\* onChange of 'Sentences per group', then the effect.
ChangeSentencesPerGroup(groupSize) ==
  /\ pc = "app"
  /\ Len(runs) < MaxRuns
  /\ groupSize # sentencesPerGroup
  /\ sentencesPerGroup' = groupSize
  /\ FetchAttentionStart(input, groupSize, currentGroupIndex)
  /\ UNCHANGED <<input, currentGroupIndex>>
  /\ UnchangedByFetch

\* The Previous / Next buttons are rendered when the text has more than one
\* group and allGroupsData more than one element.
GroupButtonsShown ==
  /\ input # 0
  /\ Len(GetSentenceGroups(input, sentencesPerGroup)) > 1
  /\ Len(allGroupsData) > 1

\* onClick of Previous (disabled at group 0), then the effect.
PreviousGroup ==
  /\ pc = "app"
  /\ Len(runs) < MaxRuns
  /\ GroupButtonsShown
  /\ currentGroupIndex # 0
  /\ currentGroupIndex' = IF currentGroupIndex - 1 > 0 THEN currentGroupIndex - 1 ELSE 0
  /\ FetchAttentionStart(input, sentencesPerGroup, currentGroupIndex')
  /\ UNCHANGED <<input, sentencesPerGroup>>
  /\ UnchangedByFetch

\* onClick of Next (disabled at the last group), then the effect.
NextGroup ==
  /\ pc = "app"
  /\ Len(runs) < MaxRuns
  /\ GroupButtonsShown
  /\ currentGroupIndex # Len(allGroupsData) - 1
  /\ currentGroupIndex' =
       IF Len(allGroupsData) - 1 < currentGroupIndex + 1 THEN Len(allGroupsData) - 1
       ELSE currentGroupIndex + 1
  /\ currentGroupIndex' # currentGroupIndex
  /\ FetchAttentionStart(input, sentencesPerGroup, currentGroupIndex')
  /\ UNCHANGED <<input, sentencesPerGroup>>
  /\ UnchangedByFetch

\* The backend answers the request that run r awaits: the result is pushed,
\* and after the last group the run sets allGroupsData and attentionData.
ResponseArrives(r) ==
  /\ pc = "app"
  /\ r \in 1..Len(runs)
  /\ LET run == runs[r]
         groupResults ==
           Append(run.groupResults, AttentionOf(run.groups[Len(run.groupResults) + 1]))
     IN  IF Len(groupResults) < Len(run.groups)
         THEN /\ runs' = [runs EXCEPT ![r].groupResults = groupResults]
              /\ UNCHANGED <<attentionData, allGroupsData>>
         ELSE /\ runs' = RemoveAt(runs, r)
              /\ allGroupsData' = groupResults
              /\ attentionData' = CurrentGroup(groupResults, run.groupIndex)
  /\ UNCHANGED <<input, sentencesPerGroup, currentGroupIndex, attentionError>>
  /\ UnchangedByFetch

\* The request that run r awaits fails (network error or !res.ok): the catch.
ResponseFails(r) ==
  /\ pc = "app"
  /\ r \in 1..Len(runs)
  /\ runs' = RemoveAt(runs, r)
  /\ attentionError' = "Could not fetch attention"
  /\ attentionData' = <<>>
  /\ allGroupsData' = <<>>
  /\ UNCHANGED <<input, sentencesPerGroup, currentGroupIndex>>
  /\ UnchangedByFetch

NextFetch ==
  \/ \E text \in 0..MaxSentences : ChangeInput(text)
  \/ \E groupSize \in 1..MaxSentences : ChangeSentencesPerGroup(groupSize)
  \/ PreviousGroup
  \/ NextGroup
  \/ \E r \in 1..MaxRuns : ResponseArrives(r)
  \/ \E r \in 1..MaxRuns : ResponseFails(r)

SpecFetch == InitFetch /\ [][NextFetch]_vars

\* ================================================================ claims
Rows == DOMAIN attention
KnownSet == {knownTokenIndices[x] : x \in 1..Len(knownTokenIndices)}

\* C1: after a render, every row of an unknown token is all zeros in the
\* adjusted matrix and every other row equals the input row cell by cell.
C1_UnknownRowsZeroed ==
  pc = "rendered" =>
    /\ DOMAIN displayAttention = Rows
    /\ \A i \in Rows :
         /\ DOMAIN displayAttention[i] = DOMAIN attention[i]
         /\ \A s \in DOMAIN attention[i] :
              displayAttention[i][s] =
                IF i \in unknownTokenIndices THEN Zero ELSE attention[i][s]

\* A render with an unknown token whose row held attention and another token
\* whose row holds attention.
C1_Witness ==
  /\ pc = "rendered"
  /\ \E u \in Rows \cap unknownTokenIndices :
       \E s \in Rows : attention[u][s] # Zero
  /\ \E i \in Rows \ unknownTokenIndices :
       \E s \in Rows : attention[i][s] # Zero

\* C2: after a render, normReceived is exactly 1 at every index listed in
\* knownTokenIndices, whatever the matrix, the other marks, the order of the
\* list and its repetitions.
C2_KnownSaturated ==
  pc = "rendered" =>
    \A k \in KnownSet : k \in DOMAIN normReceived /\ normReceived[k] = One

\* A render with two known marks, one of them on a token whose normalised
\* received score was not 1 before the loop and to which nothing attends.
C2_Witness ==
  /\ pc = "rendered"
  /\ Len(knownTokenIndices) = 2
  /\ \E k \in KnownSet \cap Rows :
       /\ NormReceivedBase(words, attention, unknownTokenIndices,
                           punctuationIndices)[k] # One
       /\ \A j \in Rows : attention[j][k] = Zero

\* C3 as stated: with no unknown token, a known token k whose normReceived
\* was below 1 before the loop raises normProvided of every token j with
\* attention[j][k] > 0 (k itself included).
C3_EveryProviderBoosted ==
  (pc = "rendered" /\ unknownTokenIndices = {}) =>
    \A k \in KnownSet \cap Rows :
      RLt(NormReceivedBase(words, attention, {}, punctuationIndices)[k], One) =>
        \A j \in Rows :
          RGt(attention[j][k], Zero) =>
            RGt(normProvided[j],
                NormProvidedBase(words, attention, {}, punctuationIndices)[j])

\* C3 amended: the same for every token j other than k.
C3_OtherProvidersBoosted ==
  (pc = "rendered" /\ unknownTokenIndices = {}) =>
    \A k \in KnownSet \cap Rows :
      RLt(NormReceivedBase(words, attention, {}, punctuationIndices)[k], One) =>
        \A j \in Rows \ {k} :
          RGt(attention[j][k], Zero) =>
            RGt(normProvided[j],
                NormProvidedBase(words, attention, {}, punctuationIndices)[j])

\* A render with no unknown token and a known token, below 1 before the loop,
\* that another token attends to.
C3_Witness ==
  /\ pc = "rendered"
  /\ unknownTokenIndices = {}
  /\ \E k \in KnownSet \cap Rows :
       /\ RLt(NormReceivedBase(words, attention, {}, punctuationIndices)[k], One)
       /\ \E j \in Rows \ {k} : RGt(attention[j][k], Zero)

\* The total of f over the index set S.
RECURSIVE SumOver(_, _)
SumOver(f, S) ==
  IF S = {} THEN Zero
  ELSE LET i == CHOOSE x \in S : TRUE IN RAdd(f[i], SumOver(f, S \ {i}))

IsScaledIdentity(mat, c) ==
  \A t, s \in DOMAIN mat : mat[t][s] = IF t = s THEN c ELSE Zero

\* C9 as stated: a render whose unknown or known marks hold a negative index
\* or one >= N fails with IndexOutOfRange.
C9_InvalidIndexRejected ==
  (pc = "rendered" /\ \E x \in unknownTokenIndices \cup KnownSet : x < 0 \/ x >= words)
    => error = "IndexOutOfRange"

\* C10: after a render, provided[i] is the total of row i and received[i] the
\* total of column i of the matrix aggregated (the input matrix when no token
\* is unknown); the two vectors have the same total, and for c times the
\* identity both are c everywhere.
C10_FlowAggregation ==
  pc = "rendered" =>
    /\ DOMAIN provided = Rows /\ DOMAIN received = Rows
    /\ \A i \in Rows :
         /\ provided[i] = SumOver(displayAttention[i], Rows)
         /\ received[i] = SumOver([t \in Rows |-> displayAttention[t][i]], Rows)
    /\ SumOver(provided, Rows) = SumOver(received, Rows)
    /\ unknownTokenIndices \cap Rows = {} =>
         /\ \A i \in Rows :
              /\ provided[i] = SumOver(attention[i], Rows)
              /\ received[i] = SumOver([t \in Rows |-> attention[t][i]], Rows)
         /\ \A c \in {Num(v) : v \in 0..MaxMass} :
              IsScaledIdentity(attention, c) =>
                \A i \in Rows : provided[i] = c /\ received[i] = c

\* A render of a matrix, no token unknown, in which some token provides a
\* different total than it receives.
C10_Witness ==
  /\ pc = "rendered"
  /\ unknownTokenIndices \cap Rows = {}
  /\ \E i \in Rows : provided[i] # received[i] /\ received[i] # Zero

IsSquare(mat) == \A t \in DOMAIN mat : Len0(mat[t]) = Len0(mat)
InUnit(x) == RLe(Zero, x) /\ RLe(x, One)
Tokens == 0..(Len0(attention) - 1)

\* C6: for a square matrix of non-negative entries and non-negative weights,
\* computeComprehension returns integration, contribution and effort values
\* that all lie in [0, 1], one per position.
C6_ScoresInUnitInterval ==
  (pc = "scored" /\ IsSquare(attention)) =>
    /\ ~scores.thrown
    /\ DOMAIN scores.benefit = Tokens
    /\ DOMAIN scores.provisionQuality = Tokens
    /\ DOMAIN scores.effort = Tokens
    /\ \A t \in Tokens :
         /\ InUnit(scores.benefit[t])
         /\ InUnit(scores.provisionQuality[t])
         /\ InUnit(scores.effort[t])

\* A call with weights in effect whose result has an effort strictly inside
\* (0, 1), a raw contribution below zero and an integration of 1.
C6_Witness ==
  /\ pc = "scored"
  /\ IsSquare(attention)
  /\ knownness.given /\ Len0(knownness.value) = Len0(attention)
  /\ \E t \in Tokens : RLt(Zero, scores.effort[t]) /\ RLt(scores.effort[t], One)
  /\ \E t \in Tokens :
       RLt(ContributionRaw(attention, knownness.value, Len0(attention))[t], Zero)
  /\ \E t \in Tokens : scores.benefit[t] = One

\* C7 as stated: computeComprehension throws, and returns no scores, for every
\* matrix of N >= 1 rows in which some row's length differs from N.
C7_NonSquareRejected ==
  (pc = "scored" /\ Len0(attention) >= 1 /\ ~IsSquare(attention)) =>
    (error # "none" /\ scores.thrown)

\* C8 as stated: knownness weights whose length differs from the matrix size
\* N (N >= 1: an empty matrix returns empty arrays), or a scoreboard words
\* array whose length differs from the score arrays', make the call fail with
\* DimensionMismatch.
C8_LengthMismatchRejected ==
  /\ (pc = "scored" /\ Len0(attention) >= 1
        /\ knownness.given /\ Len0(knownness.value) # Len0(attention))
       => error = "DimensionMismatch"
  /\ (pc = "board" /\ board.words # Len0(scores.effort))
       => error = "DimensionMismatch"

\* Frame i as the source computes it from matrix mat.
EffortAt(mat, i) ==
  ComputeComprehension(MaskAttentionByReadIndex(mat, i), knownness).effort

\* The bounded square matrices of each size, computed once.
MatricesOfSize == [n \in 0..MaxN |-> SquareMatrices(n)]

AgreeUpTo(a, b, i) ==
  \A t, s \in DOMAIN a : s <= i => a[t][s] = b[t][s]

\* C4: frame i of the timeline of the input matrix equals frame i of the
\* timeline of every N x N matrix that agrees with it on all cells [t][s]
\* with s <= i, for the same weights.
C4_CausalMasking ==
  pc = "returned" =>
    \A i \in 0..(Len(frames) - 1) :
      \A b \in MatricesOfSize[Len0(attention)] :
        AgreeUpTo(attention, b, i) => frames[i + 1] = EffortAt(b, i)

\* A returned timeline of a matrix for which some other matrix agrees up to
\* a read index i but has a different unmasked effort vector.
C4_Witness ==
  /\ pc = "returned"
  /\ \E i \in Tokens :
       \E b \in MatricesOfSize[Len0(attention)] :
         /\ AgreeUpTo(attention, b, i)
         /\ ComputeComprehension(b, knownness).effort
              # ComputeComprehension(attention, knownness).effort

\* C5: the timeline of an N x N matrix has exactly N frames of length N, the
\* frame at position i being the effort vector for read index i; while the
\* loop runs the frames collected are those of read indices 0..i-1 in order,
\* and no call throws (N = 0 returns the empty list).
C5_TimelineShape ==
  /\ pc # "thrown"
  /\ pc = "loop" => Len(frames) = readIndex
  /\ pc = "returned" => (Len(frames) = Len0(attention) /\ error = "none")
  /\ pc \in {"loop", "returned"} =>
       \A i \in 0..(Len(frames) - 1) :
         /\ DOMAIN frames[i + 1] = Tokens
         /\ frames[i + 1] = EffortAt(attention, i)

\* A returned timeline of two different frames.
C5_Witness ==
  /\ pc = "returned"
  /\ Len(frames) = 2
  /\ frames[1] # frames[2]

\* ------------------------------------------------ claims on the normalisers
NonExcluded == (0..(words - 1)) \ punctuationIndices
NonExcludedKnown == NonExcluded \ unknownTokenIndices

\* The raw combined score of token i: what it receives, plus what it provides
\* unless it is unknown (totals of the matrix with the unknown rows zeroed).
RawOf(i) ==
  IF i \in unknownTokenIndices THEN received[i] ELSE RAdd(received[i], provided[i])

\* C11: after a render without a known token, normalizedSums and normProvided
\* have one entry per token; every excluded index (punctuation, and for
\* normProvided the unknown tokens too) holds exactly 0, every included index a
\* value in [0, 1], and all entries are 0 when the included values are all equal.
C11_NormalizerGuarantees ==
  (pc = "rendered" /\ knownTokenIndices = <<>>) =>
    /\ DOMAIN normalizedSums = 0..(words - 1)
    /\ DOMAIN normProvided = 0..(words - 1)
    /\ \A i \in (0..(words - 1)) \ NonExcluded : normalizedSums[i] = Zero
    /\ \A i \in (0..(words - 1)) \ NonExcludedKnown : normProvided[i] = Zero
    /\ \A i \in NonExcluded : InUnit(normalizedSums[i])
    /\ \A i \in NonExcludedKnown : InUnit(normProvided[i])
    /\ (\A i, j \in NonExcluded : RawOf(i) = RawOf(j)) =>
         \A i \in NonExcluded : normalizedSums[i] = Zero
    /\ (\A i, j \in NonExcludedKnown : provided[i] = provided[j]) =>
         \A i \in NonExcludedKnown : normProvided[i] = Zero

\* A render with a punctuation token whose raw scores are not 0 and two other
\* tokens normalised to the two ends of the range.
C11_Witness ==
  /\ pc = "rendered"
  /\ \E p \in punctuationIndices : received[p] # Zero /\ provided[p] # Zero
  /\ \E i, j \in NonExcluded :
       /\ normalizedSums[i] = Zero /\ normalizedSums[j] = One
       /\ normProvided[i] # normProvided[j]

\* C12 as stated: after a render, normReceived of every non-excluded token
\* lies in [0, 1].
C12_NormReceivedInUnit ==
  pc = "rendered" => \A i \in NonExcluded : InUnit(normReceived[i])

\* The least / greatest of the values f[i], i in the non-empty set S.
LeastOver(f, S) == CHOOSE x \in {f[i] : i \in S} : \A i \in S : RLe(x, f[i])
GreatestOver(f, S) == CHOOSE x \in {f[i] : i \in S} : \A i \in S : RLe(f[i], x)

\* The min-max normalisation of f over the included set S, at index i.
MinMaxAt(f, S, i) ==
  IF i \notin S THEN Zero
  ELSE LET least == LeastOver(f, S)
            greatest == GreatestOver(f, S)
       IN  IF greatest = least THEN Zero
           ELSE RDiv(RSub(f[i], least), RSub(greatest, least))

\* C14: after a render without a known token, normalizedSums is the min-max
\* normalisation, over the non-punctuation tokens, of received[i] for an
\* unknown token i and received[i] + provided[i] for any other, and 0 at
\* every punctuation token.
C14_CombinedScore ==
  (pc = "rendered" /\ knownTokenIndices = <<>>) =>
    /\ DOMAIN normalizedSums = 0..(words - 1)
    /\ \A i \in 0..(words - 1) :
         normalizedSums[i] =
           MinMaxAt([t \in 0..(words - 1) |-> RawOf(t)], NonExcluded, i)

\* A render with an unknown token that receives attention, scored strictly
\* between two other tokens.
C14_Witness ==
  /\ pc = "rendered"
  /\ knownTokenIndices = <<>>
  /\ \E u \in unknownTokenIndices \cap NonExcluded :
       /\ received[u] # Zero
       /\ RLt(Zero, normalizedSums[u]) /\ RLt(normalizedSums[u], One)

\* Row and column totals of the input matrix, before any row is zeroed.
OriginalProvided == [i \in Rows |-> SumOver(attention[i], Rows)]
OriginalReceived == [i \in Rows |-> SumOver([t \in Rows |-> attention[t][i]], Rows)]

\* C17 as stated: after a render without a known token, normProvided and
\* normReceived are scaled by the least and greatest totals of the ORIGINAL
\* matrix over the non-excluded tokens, and normProvided[j] of every token j
\* is what it would be had another token u not been marked unknown.
C17_ScaleNotDistorted ==
  (pc = "rendered" /\ knownTokenIndices = <<>>) =>
    /\ \A j \in NonExcludedKnown :
         /\ normProvided[j] = MinMaxAt(OriginalProvided, NonExcluded, j)
         /\ normReceived[j] =
              IF GreatestOver(OriginalReceived, NonExcluded)
                   = LeastOver(OriginalReceived, NonExcluded)
              THEN Zero
              ELSE RDiv(RSub(received[j], LeastOver(OriginalReceived, NonExcluded)),
                        RSub(GreatestOver(OriginalReceived, NonExcluded),
                             LeastOver(OriginalReceived, NonExcluded)))
    /\ \A u \in unknownTokenIndices : \A j \in Rows \ {u} :
         normProvided[j] =
           NormProvidedBase(words, attention, unknownTokenIndices \ {u},
                            punctuationIndices)[j]

\* ------------------------------------------- claims on the known-token loop
\* normReceived and normProvided as the render leaves them for the known list.
AdjustedFor(known) ==
  Adjusted(words, attention, unknownTokenIndices, known, punctuationIndices)

BaseNormReceived ==
  NormReceivedBase(words, attention, unknownTokenIndices, punctuationIndices)
BaseNormProvided ==
  NormProvidedBase(words, attention, unknownTokenIndices, punctuationIndices)

\* Every mark is the index of a token.
ValidMarks == (KnownSet \cup unknownTokenIndices) \subseteq Rows

\* The known list without the indices that are also marked unknown.
KnownNotUnknown ==
  LET NotUnknown(x) == x \notin unknownTokenIndices
  IN  SelectSeq(knownTokenIndices, NotUnknown)

\* C13 as stated: after a render with valid marks, the row of a token marked
\* both unknown and known is zeroed, and normReceived and normProvided are what
\* the known-token loop leaves when it skips every such token.
C13_UnknownBeatsKnown ==
  (pc = "rendered" /\ ValidMarks) =>
    /\ \A k \in KnownSet \cap unknownTokenIndices \cap Rows :
         \A s \in DOMAIN displayAttention[k] : displayAttention[k][s] = Zero
    /\ <<normReceived, normProvided>> = AdjustedFor(KnownNotUnknown)

\* C20 as stated: after a render with valid marks, normProvided[u] = 0 for
\* every unknown token u.
C20_UnknownProvidesNothing ==
  (pc = "rendered" /\ ValidMarks) =>
    \A u \in unknownTokenIndices : normProvided[u] = Zero

\* The elements of the finite set S of integers, in ascending order.
RECURSIVE Ascending(_)
Ascending(S) ==
  IF S = {} THEN <<>>
  ELSE LET m == CHOOSE x \in S : \A y \in S : x <= y
       IN  <<m>> \o Ascending(S \ {m})

ReconstructedRaw ==
  UpdatedRawSums(words, attention, provided, <<normReceived, normProvided>>,
                 unknownTokenIndices, punctuationIndices)

\* The tokens whose normReceived and normProvided the known step left alone.
UntouchedByKnownStep ==
  LET nr == BaseNormReceived
      np == BaseNormProvided
  IN  {i \in 0..(words - 1) : normReceived[i] = nr[i] /\ normProvided[i] = np[i]}

\* The non-excluded tokens' received totals in the original matrix are all equal.
DegenerateReceivedRange ==
  \A i, j \in NonExcluded :
    ColumnReduce(attention, i, Len0(attention))
      = ColumnReduce(attention, j, Len0(attention))

\* C15 as stated: after a render with a known token (and valid marks), the
\* raw score rebuilt from normReceived and normProvided equals received[i]
\* (+ provided[i] unless i is unknown) for every non-excluded token i that the
\* known step left alone.
C15_ReconstructionRoundTrip ==
  (pc = "rendered" /\ Len(knownTokenIndices) > 0 /\ ValidMarks) =>
    LET rebuilt == ReconstructedRaw
    IN  \A i \in NonExcluded \cap UntouchedByKnownStep : rebuilt[i] = RawOf(i)

\* C15 amended: the same, for the tokens i whose received total is the common
\* one when the non-excluded tokens' original received totals are all equal.
C15_RoundTripOutsideDegenerateRange ==
  (pc = "rendered" /\ Len(knownTokenIndices) > 0) =>
    LET rebuilt == ReconstructedRaw
        degenerate == DegenerateReceivedRange
    IN  \A i \in NonExcluded \cap UntouchedByKnownStep :
          (~degenerate \/ received[i] = ColumnReduce(attention, i, Len0(attention)))
            => rebuilt[i] = RawOf(i)

\* A render with a known token and a token the known step left alone, whose
\* normalised scores are not both 0 and whose raw score is rebuilt.
C15_Witness ==
  /\ pc = "rendered"
  /\ Len(knownTokenIndices) > 0
  /\ ~DegenerateReceivedRange
  /\ \E i \in NonExcluded \cap UntouchedByKnownStep :
       /\ normReceived[i] # Zero
       /\ normProvided[i] # Zero
       /\ ReconstructedRaw[i] = RawOf(i)

\* ------------------------------------------------- claims on contribution
\* contributionRaw of the call, with the weights in effect.
RawContribution ==
  ContributionRaw(attention, Weights(knownness, Len0(attention)), Len0(attention))

\* C19: for a square matrix of N >= 1 rows, the contribution returned is the
\* min-max normalisation of the raw contribution over all positions (zeros
\* when its greatest and least values are equal), and the bounds the code
\* clamps with 0 are the vector's own least and greatest values.
C19_ContributionIsMinMax ==
  (pc = "scored" /\ Len0(attention) >= 1 /\ IsSquare(attention)) =>
    LET raw == RawContribution
    IN  /\ ~scores.thrown
        /\ \A t \in Tokens : scores.provisionQuality[t] = MinMaxAt(raw, Tokens, t)
        /\ MathMin({Zero} \cup Range(raw)) = LeastOver(raw, Tokens)
        /\ MathMax({Zero} \cup Range(raw)) = GreatestOver(raw, Tokens)

\* A call whose raw contribution has a value below 0 and a value above 0.
C19_Witness ==
  /\ pc = "scored"
  /\ Len0(attention) >= 1 /\ IsSquare(attention)
  /\ \E t \in Tokens : RLt(RawContribution[t], Zero)
  /\ \E t \in Tokens : RGt(RawContribution[t], Zero)

LatestGroupsData ==
  LET groups == GetSentenceGroups(input, sentencesPerGroup)
  IN  [j \in 1..Len(groups) |-> AttentionOf(groups[j])]

\* C22 as stated: once no fetchAttention run is in flight (and the last one
\* to finish reported no error), allGroupsData and attentionData are those of
\* the current text, group size and group index.
C22_LatestInputDisplayed ==
  (pc = "app" /\ runs = <<>> /\ attentionError = "none") =>
    /\ allGroupsData = LatestGroupsData
    /\ attentionData = CurrentGroup(LatestGroupsData, currentGroupIndex)

\* ---------------------------------------------- claims on the rearrangement
\* Attention of the word at position pos of ord to the words placed on its
\* left and on its right.
LeftOf(ord, pos) == SideSums(attention, ord, pos, words)[1]
RightOf(ord, pos) == SideSums(attention, ord, pos, words)[2]

OriginalOrder == [i \in 0..(words - 1) |-> i]

IsPermutation(ord, n) ==
  /\ DOMAIN ord = 0..(n - 1)
  /\ {ord[k] : k \in DOMAIN ord} = 0..(n - 1)

\* C24: every call of rearrangeWordsLeftAttention returns, and from then on
\* `order` is a permutation of 0..n-1 whose score no swap of two positions
\* strictly increases.
C24_TerminatesInLocalOptimum ==
  /\ <>(pc = "rearranged")
  /\ [](pc = "rearranged" =>
         /\ IsPermutation(order, words)
         /\ \A i, j \in 0..(words - 1) :
              ~RGt(LeftRightScore(attention, Swapped(order, i, j), words),
                   LeftRightScore(attention, order, words)))

\* A call returned after a pass that kept a swap and a later pass that kept
\* none: the order returned is not the input order.
C24_Witness ==
  /\ pc = "rearranged"
  /\ words = MaxReorder
  /\ order # OriginalOrder

\* ------------------------------------------------ claims on the mask builder
\* C25 as stated: for the props the mask was built from, at every position x
\* of the known list the tokens the mask builder boosts for the known token
\* and their shares are those the heatmap's loop boosts at that position.
C25_MaskMirrorsHeatmap ==
  (pc = "masked" /\ ValidMarks) =>
    LET base == AdjustedFor(<<>>)
        zeroed == MaskUnknownRows(attention, unknownTokenIndices)
        normRecv == MaskNormReceived(words, attention, zeroed, punctuationIndices)
        span == RSub(OriginalMaxReceived(words, attention, punctuationIndices),
                     OriginalMinReceived(words, attention, punctuationIndices))
    IN  \A x \in 1..Len(knownTokenIndices) : \A j \in Rows :
          ProviderShare(attention,
                        KnownLoop(attention, base, knownTokenIndices, x - 1),
                        knownTokenIndices[x], j)
            = MaskProviderShare(MaskKnownLoop(zeroed, normRecv, span,
                                              knownTokenIndices, x - 1),
                                normRecv, knownTokenIndices[x], j)

\* ------------------------------------------------------- claims on the effort
\* C26: for every N >= 1 and every N x N matrix of non-negative entries (the
\* all-zero matrix and N = 1 included) the effort returned by
\* computeComprehension has an entry equal to exactly 1.
C26_EffortPeaksAtOne ==
  (pc \in {"scored", "board"} /\ words >= 1 /\ IsSquare(attention)) =>
    /\ ~scores.thrown
    /\ Len0(scores.effort) = words
    /\ \E i \in DOMAIN scores.effort : scores.effort[i] = One

\* A two-token matrix with attention in it, scored with weights of its own:
\* one effort is 1 and the other is below 1.
C26_Witness ==
  /\ pc = "scored" /\ words = 2 /\ IsSquare(attention)
  /\ knownness.given /\ Len0(knownness.value) = 2
  /\ \E t, u \in DOMAIN attention : RGt(attention[t][u], Zero)
  /\ \E i, j \in DOMAIN scores.effort :
       scores.effort[i] = One /\ RLt(scores.effort[j], One)

\* C27: for every N >= 1 matrix and weights, the last frame (index N - 1) of
\* computeEffortTimeline equals the effort of computeComprehension applied to
\* the unmasked matrix with the same weights.
C27_LastFrameIsUnmaskedEffort ==
  (pc = "returned" /\ words >= 1) =>
    /\ Len(frames) = words
    /\ frames[Len(frames)] = ComputeComprehension(attention, knownness).effort

\* A returned two-token timeline with weights, whose first frame differs from
\* the last: the mask hid attention that the last frame sees.
C27_Witness ==
  /\ pc = "returned" /\ words = 2
  /\ knownness.given
  /\ RGt(attention[0][1], Zero)
  /\ frames[1] # frames[2]
  /\ frames[2] = ComputeComprehension(attention, knownness).effort

\* ------------------------------------------------ claims on the boosted mass
\* The loop's pair <<normReceivedCopy, normProvidedCopy>> after the first x
\* known tokens of the render.
LoopState(x) == KnownLoop(attention, AdjustedFor(<<>>), knownTokenIndices, x)

\* The sum over all tokens of what the x-th known token added to normProvided.
BoostSum(x) ==
  LET before == LoopState(x - 1)[2]
      after == LoopState(x)[2]
  IN  ReduceSum([j \in Rows |-> RSub(after[j], before[j])], words)

\* C28: for a known token k with delta = 1 - previous normReceived[k] > 0 and
\* totalToK > 0, the boosts added to normProvided on account of k sum to
\* delta * (1 - A[k][k] / totalToK); the sum never exceeds delta and equals
\* delta exactly when k has no self-attention.
C28_RedistributedMass ==
  (pc = "rendered" /\ ValidMarks) =>
    \A x \in 1..Len(knownTokenIndices) :
      LET k == knownTokenIndices[x]
          delta == RSub(One, LoopState(x - 1)[1][k])
          totalToK == ColumnReduce(attention, k, words)
          sum == BoostSum(x)
      IN  (RGt(delta, Zero) /\ RGt(totalToK, Zero)) =>
            /\ sum = RMul(delta, RSub(One, RDiv(attention[k][k], totalToK)))
            /\ RLe(sum, delta)
            /\ (sum = delta) <=> (attention[k][k] = Zero)

\* A known token with self-attention and another provider, boosted with a
\* positive delta: part of delta reaches the provider, part is lost.
C28_Witness ==
  /\ pc = "rendered" /\ ValidMarks
  /\ \E x \in 1..Len(knownTokenIndices) :
       LET k == knownTokenIndices[x]
       IN  /\ RGt(attention[k][k], Zero)
           /\ RGt(RSub(One, LoopState(x - 1)[1][k]), Zero)
           /\ RGt(BoostSum(x), Zero)
           /\ RLt(BoostSum(x), RSub(One, LoopState(x - 1)[1][k]))

\* --------------------------------------------------- claims on the animation
\* An animation frame was delivered in the step.
FrameDelivered == frameTs' # frameTs

\* The frame delivered is an accepted tick: dt >= interval.
TickAccepted == lastTs # NoTs /\ frameTs' - lastTs >= Interval

\* C29: for a fixed non-empty list of N frames, after any sequence of
\* play / pause toggles, animation ticks and slider moves idx is in 0..N-1;
\* an accepted tick happens only while playing and moves idx to
\* (idx + 1) mod N, a tick that is not accepted leaves idx alone, and no
\* animation frame is delivered (so no tick changes idx) while paused.
C29_IndexCycles ==
  /\ []((pc = "animation" /\ Len(frames) >= 1) =>
         (idx \in 0..(Len(frames) - 1) /\ (~playing => ~rafRef)))
  /\ [][(pc = "animation" /\ Len(frames) >= 1 /\ FrameDelivered) =>
          /\ playing
          /\ idx' = IF TickAccepted THEN (idx + 1) % Len(frames) ELSE idx]_vars

\* Three frames played through: an accepted tick has just wrapped the index
\* from the last frame to frame 0.
C29_Witness ==
  /\ pc = "animation" /\ Len(frames) = 3
  /\ playing /\ ticks = 3 /\ idx = 0 /\ lastTs = frameTs

\* ------------------------------------------------ claims on the band tables
\* C30 as stated: once the thresholds are computed from the percents, every
\* word that is not punctuation is in exactly one of the three band tables.
C30_BandsPartition ==
  pc = "bands" =>
    \A r \in (0..(words - 1)) \ punctuationIndices :
      Cardinality({b \in {"upper", "middle", "lower"} : r \in bandTables[b]}) = 1

====
